---- MODULE Spec2Model ----
(***************************************************************************)
(* Provider abstraction and unified model routing of All-Model-Chat.       *)
(*                                                                         *)
(* Part 1 models one sendMessageStream call of a provider adapter          *)
(* (OpenAI, Anthropic, Custom; Gemini up to its delegation to the Gemini   *)
(* service): the fetch, the SSE read loop with its carry-over buffer, the  *)
(* usage accounting and the onPart / onComplete / onError callbacks.       *)
(* Part 2 models the ProviderRegistry: registration, the aggregate model   *)
(* listing with per-provider fallback and the final sort, and the routing  *)
(* of a model id to a provider.                                            *)
(***************************************************************************)
EXTENDS Integers, Sequences, FiniteSets, TLC

(***************************************************************************)
(* Bounds                                                                  *)
(***************************************************************************)
MaxFrames == 3      \* lines the server sends in one streamed response
MaxConfigs == 2     \* provider configs in a list handed to the registry

(***************************************************************************)
(* Generic helpers                                                         *)
(***************************************************************************)
SeqsUpTo(S, n) == UNION { [1..k -> S] : k \in 0..n }

RECURSIVE Flatten(_)
Flatten(ss) == IF ss = <<>> THEN <<>> ELSE Head(ss) \o Flatten(Tail(ss))

Front(s) == SubSeq(s, 1, Len(s) - 1)
Last(s)  == s[Len(s)]

\* strings: s.startsWith(pre), s.includes(sub), the i-th character
StartsWith(s, pre) == Len(s) >= Len(pre) /\ SubSeq(s, 1, Len(pre)) = pre
Includes(s, sub) ==
  \E i \in 1..(Len(s) - Len(sub) + 1) : SubSeq(s, i, i + Len(sub) - 1) = sub
CharAt(s, i) == SubSeq(s, i, i)

(***************************************************************************)
(* PROVIDER_IDS                                                            *)
(***************************************************************************)
GEMINI    == "gemini"
OPENAI    == "openai"
ANTHROPIC == "anthropic"
CUSTOM    == "custom"

StreamProviders == {GEMINI, OPENAI, ANTHROPIC, CUSTOM}
SSEProviders    == {OPENAI, ANTHROPIC, CUSTOM}

(***************************************************************************)
(* The wire.  A response body is text; it is modelled as a sequence of     *)
(* text pieces (atoms) between which a read chunk may end.  A data line is *)
(* the prefix 'data: ' (two atoms, so that a chunk can end inside it), a   *)
(* payload atom and the newline atom.                                      *)
(***************************************************************************)
NL         == "\n"
DataPrefix == <<"da", "ta: ">>
DONE       == "[DONE]"
BadJSON    == "{\"choices\":[{\"del"     \* a truncated JSON document
OtherLine  == "event: ping"              \* a line without the data prefix

\* usage objects an OpenAI-compatible server reports (wire field names)
WireUsage1 == [prompt_tokens |-> 1, completion_tokens |-> 2, total_tokens |-> 3]
WireUsage2 == [prompt_tokens |-> 2, completion_tokens |-> 1, total_tokens |-> 4]

\* JSON documents of the OpenAI / Custom stream: choices[0].delta.content
\* ("" when absent or empty) and the optional usage object (<<>> when absent
\* or null).
OpenAIObj(c, u) == [content |-> c, usage |-> u]

OpenAIFrameObj ==
  [ Ta   |-> OpenAIObj("a", <<>>),
    Tb   |-> OpenAIObj("b", <<>>),
    U1   |-> OpenAIObj("",  <<WireUsage1>>),
    TbU2 |-> OpenAIObj("b", <<WireUsage2>>) ]

\* JSON documents of the Anthropic stream: type, delta.text ("" when
\* absent), message.usage.input_tokens and usage.output_tokens (<<>> when
\* the usage object is absent).
AnthropicObj(ty, tx, mu, u) ==
  [type |-> ty, text |-> tx, message_usage |-> mu, usage |-> u]

AnthropicFrameObj ==
  [ S1   |-> AnthropicObj("message_start", "", <<1>>, <<>>),
    S2   |-> AnthropicObj("message_start", "", <<2>>, <<>>),
    Ta   |-> AnthropicObj("content_block_delta", "a", <<>>, <<>>),
    Tb   |-> AnthropicObj("content_block_delta", "b", <<>>, <<>>),
    D1   |-> AnthropicObj("message_delta", "", <<>>, <<1>>),
    D3   |-> AnthropicObj("message_delta", "", <<>>, <<3>>),
    Stop |-> AnthropicObj("message_stop", "", <<>>, <<>>) ]

\* the frames a server of the provider's protocol may send: a data line
\* with one of the JSON documents, a data line with malformed JSON, the
\* [DONE] sentinel (OpenAI / Custom), a line without the data prefix
JSONFrames(p) ==
  IF p = ANTHROPIC THEN DOMAIN AnthropicFrameObj ELSE DOMAIN OpenAIFrameObj

FrameKinds(p) ==
  JSONFrames(p) \cup (IF p = ANTHROPIC THEN {"Bad", "Other"} ELSE {"Bad", "Done", "Other"})

\* JSON.stringify on the server side: the document's text
OpenAIStringify(o) ==
  "{\"choices\":[{\"delta\":{\"content\":\"" \o o.content \o "\"}}]"
  \o (IF o.usage = <<>> THEN ""
      ELSE ",\"usage\":{" \o ToString(o.usage[1].prompt_tokens) \o ","
           \o ToString(o.usage[1].completion_tokens) \o ","
           \o ToString(o.usage[1].total_tokens) \o "}")
  \o "}"

AnthropicStringify(o) ==
  "{\"type\":\"" \o o.type \o "\""
  \o (IF o.text = "" THEN "" ELSE ",\"delta\":{\"text\":\"" \o o.text \o "\"}")
  \o (IF o.message_usage = <<>> THEN ""
      ELSE ",\"message\":{\"usage\":{\"input_tokens\":"
           \o ToString(o.message_usage[1]) \o "}}")
  \o (IF o.usage = <<>> THEN ""
      ELSE ",\"usage\":{\"output_tokens\":" \o ToString(o.usage[1]) \o "}")
  \o "}"

\* the payload of every data line, by adapter and frame
PayloadOf ==
  [p \in SSEProviders |->
     [f \in FrameKinds(p) \ {"Other"} |->
        IF f = "Bad" THEN BadJSON
        ELSE IF f = "Done" THEN DONE
        ELSE IF p = ANTHROPIC THEN AnthropicStringify(AnthropicFrameObj[f])
        ELSE OpenAIStringify(OpenAIFrameObj[f])]]

Payload(p, f) == PayloadOf[p][f]

\* the text of one line, without its newline
LineAtoms(p, f) ==
  IF f = "Other" THEN <<OtherLine>> ELSE DataPrefix \o <<Payload(p, f)>>

\* the whole response body: every line is newline-terminated, except that
\* the last one is not when the body is cut short (term = FALSE)
RECURSIVE Encode(_, _, _)
Encode(p, fs, term) ==
  IF fs = <<>> THEN <<>>
  ELSE LineAtoms(p, Head(fs))
       \o (IF Len(fs) = 1 /\ ~term THEN <<>> ELSE <<NL>>)
       \o Encode(p, Tail(fs), term)

(***************************************************************************)
(* The adapters' side of the stream                                        *)
(***************************************************************************)
\* buffer.split('\n'): the pieces between newlines, one more than there are
\* newlines
RECURSIVE Split(_)
Split(s) ==
  IF s = <<>> THEN << <<>> >>
  ELSE LET rest == Split(Tail(s)) IN
       IF Head(s) = NL THEN << <<>> >> \o rest
       ELSE << <<Head(s)>> \o Head(rest) >> \o Tail(rest)

\* line.startsWith('data: ')
StartsWithData(line) ==
  Len(line) >= Len(DataPrefix) /\ SubSeq(line, 1, Len(DataPrefix)) = DataPrefix

\* line.slice(6)
SliceData(line) == SubSeq(line, Len(DataPrefix) + 1, Len(line))

\* JSON.parse(data): <<document>>, or <<>> when it throws
JSONParse(p, data) ==
  IF Len(data) = 1 /\ \E f \in JSONFrames(p) : Payload(p, f) = data[1]
  THEN LET f == CHOOSE g \in JSONFrames(p) : Payload(p, g) = data[1]
       IN  << IF p = ANTHROPIC THEN AnthropicFrameObj[f] ELSE OpenAIFrameObj[f] >>
  ELSE <<>>

\* the usage object handed to onComplete
Usage(p, c, t) == [promptTokens |-> p, completionTokens |-> c, totalTokens |-> t]

\* OpenAILine with the total recomputed from the two counts instead of
\* copied from the frame
OpenAILine_TotalRecomputed(p, line, st) ==
  IF ~StartsWithData(line) THEN st
  ELSE LET data == SliceData(line) IN
       IF data = <<DONE>> THEN st
       ELSE LET parsed == JSONParse(p, data) IN
            IF parsed = <<>> THEN st
            ELSE [parts |-> IF parsed[1].content # ""
                            THEN Append(st.parts, parsed[1].content)
                            ELSE st.parts,
                  usage |-> IF parsed[1].usage # <<>>
                            THEN << Usage(parsed[1].usage[1].prompt_tokens,
                                          parsed[1].usage[1].completion_tokens,
                                          parsed[1].usage[1].prompt_tokens
                                            + parsed[1].usage[1].completion_tokens) >>
                            ELSE st.usage]

\* One line of the OpenAI / Custom read loop.  st = [parts, usage]: the
\* texts handed to onPart so far in this chunk and usageMetadata.
OpenAILine(p, line, st) ==
  IF ~StartsWithData(line) THEN st
  ELSE LET data == SliceData(line) IN
       IF data = <<DONE>> THEN st
       ELSE LET parsed == JSONParse(p, data) IN
            IF parsed = <<>> THEN st
            ELSE [parts |-> IF parsed[1].content # ""
                            THEN Append(st.parts, parsed[1].content)
                            ELSE st.parts,
                  usage |-> IF parsed[1].usage # <<>>
                            THEN << Usage(parsed[1].usage[1].prompt_tokens,
                                          parsed[1].usage[1].completion_tokens,
                                          parsed[1].usage[1].total_tokens) >>
                            ELSE st.usage]

\* AnthropicLine with message_delta not carrying the prompt tokens into the
\* total
AnthropicLine_PromptNotCarried(p, line, st) ==
  IF ~StartsWithData(line) THEN st
  ELSE LET parsed == JSONParse(p, SliceData(line)) IN
       IF parsed = <<>> THEN st
       ELSE IF parsed[1].type = "content_block_delta" /\ parsed[1].text # ""
            THEN [st EXCEPT !.parts = Append(@, parsed[1].text)]
       ELSE IF parsed[1].type = "message_start" /\ parsed[1].message_usage # <<>>
            THEN [st EXCEPT !.usage =
                    << Usage(parsed[1].message_usage[1], 0,
                             parsed[1].message_usage[1]) >>]
       ELSE IF parsed[1].type = "message_delta" /\ parsed[1].usage # <<>>
            THEN [st EXCEPT !.usage =
                    << Usage(0, parsed[1].usage[1], parsed[1].usage[1]) >>]
       ELSE st

\* One line of the Anthropic read loop.
AnthropicLine(p, line, st) ==
  IF ~StartsWithData(line) THEN st
  ELSE LET parsed == JSONParse(p, SliceData(line)) IN
       IF parsed = <<>> THEN st
       ELSE IF parsed[1].type = "content_block_delta" /\ parsed[1].text # ""
            THEN [st EXCEPT !.parts = Append(@, parsed[1].text)]
       ELSE IF parsed[1].type = "message_start" /\ parsed[1].message_usage # <<>>
            THEN [st EXCEPT !.usage =
                    << Usage(parsed[1].message_usage[1], 0,
                             parsed[1].message_usage[1]) >>]
       ELSE IF parsed[1].type = "message_delta" /\ parsed[1].usage # <<>>
            THEN IF st.usage # <<>>
                 THEN [st EXCEPT !.usage =
                         << Usage(st.usage[1].promptTokens, parsed[1].usage[1],
                                  st.usage[1].promptTokens + parsed[1].usage[1]) >>]
                 ELSE st
       ELSE st

\* One line of the Custom read loop (the same statements as OpenAI's).
CustomLine(p, line, st) ==
  IF ~StartsWithData(line) THEN st
  ELSE LET data == SliceData(line) IN
       IF data = <<DONE>> THEN st
       ELSE LET parsed == JSONParse(p, data) IN
            IF parsed = <<>> THEN st
            ELSE [parts |-> IF parsed[1].content # ""
                            THEN Append(st.parts, parsed[1].content)
                            ELSE st.parts,
                  usage |-> IF parsed[1].usage # <<>>
                            THEN << Usage(parsed[1].usage[1].prompt_tokens,
                                          parsed[1].usage[1].completion_tokens,
                                          parsed[1].usage[1].total_tokens) >>
                            ELSE st.usage]

ProcessLine(p, line, st) ==
  IF p = ANTHROPIC THEN AnthropicLine(p, line, st)
  ELSE IF p = CUSTOM THEN CustomLine(p, line, st)
  ELSE OpenAILine(p, line, st)

\* ProcessLines with the try / catch around the loop instead of inside it:
\* a malformed data line ends the processing of the chunk's lines
RECURSIVE ProcessLines_CatchOutsideLoop(_, _, _)
ProcessLines_CatchOutsideLoop(p, lines, st) ==
  IF lines = <<>> THEN st
  ELSE IF /\ StartsWithData(Head(lines))
          /\ (p = ANTHROPIC \/ SliceData(Head(lines)) # <<DONE>>)
          /\ JSONParse(p, SliceData(Head(lines))) = <<>>
       THEN st
       ELSE ProcessLines_CatchOutsideLoop(p, Tail(lines),
                                          ProcessLine(p, Head(lines), st))

\* ProcessLines leaving the loop at the [DONE] line of an OpenAI / Custom
\* stream: the lines after it in the chunk are not processed
RECURSIVE ProcessLines_StopAtDone(_, _, _)
ProcessLines_StopAtDone(p, lines, st) ==
  IF lines = <<>> THEN st
  ELSE IF p # ANTHROPIC /\ StartsWithData(Head(lines)) /\ SliceData(Head(lines)) = <<DONE>>
       THEN st
       ELSE ProcessLines_StopAtDone(p, Tail(lines), ProcessLine(p, Head(lines), st))

\* for (const line of lines) { ... }
RECURSIVE ProcessLines(_, _, _)
ProcessLines(p, lines, st) ==
  IF lines = <<>> THEN st
  ELSE ProcessLines(p, Tail(lines), ProcessLine(p, Head(lines), st))

\* ProcessChunk without buffer = lines.pop(): the buffer keeps the lines
\* already processed
ProcessChunk_BufferKept(p, buf, usage, chunk) ==
  LET lines == Split(buf \o chunk)
      st    == ProcessLines(p, Front(lines), [parts |-> <<>>, usage |-> usage])
  IN  [buffer |-> buf \o chunk, parts |-> st.parts, usage |-> st.usage]

\* ProcessChunk that also processes the piece after the last newline, which
\* it keeps as the buffer all the same
ProcessChunk_TailProcessed(p, buf, usage, chunk) ==
  LET lines == Split(buf \o chunk)
      st    == ProcessLines(p, lines, [parts |-> <<>>, usage |-> usage])
  IN  [buffer |-> Last(lines), parts |-> st.parts, usage |-> st.usage]

\* ProcessChunk with no buffer carried from one chunk to the next: every
\* chunk is split and processed on its own, whole
ProcessChunk_NoBuffer(p, buf, usage, chunk) ==
  LET st == ProcessLines(p, Split(chunk), [parts |-> <<>>, usage |-> usage])
  IN  [buffer |-> <<>>, parts |-> st.parts, usage |-> st.usage]

\* One iteration of the read loop on a chunk: append to the buffer, split,
\* keep the last piece as the new buffer, process the other lines.
ProcessChunk(p, buf, usage, chunk) ==
  LET lines == Split(buf \o chunk)
      st    == ProcessLines(p, Front(lines), [parts |-> <<>>, usage |-> usage])
  IN  [buffer |-> Last(lines), parts |-> st.parts, usage |-> st.usage]

(***************************************************************************)
(* State                                                                   *)
(***************************************************************************)
VARIABLES
  provider,       \* the adapter sendMessageStream is called on
  hasApiKey,      \* config.apiKey is set
  frames,         \* the lines the server sends (input)
  terminated,     \* the last line ends with a newline (input)
  wire,           \* the response body the server sends
  pos,            \* atoms of the body the reader has delivered
  pc,             \* where the call is: idle, fetch, errorText, read,
                  \* delegated, done, rejected
  buffer,         \* the carry-over buffer
  usageMetadata,  \* <<>> is null
  log,            \* the callbacks invoked, in order
  fetchIssued,    \* fetch() was called
  readerLock,     \* none, held, released
  aborted,        \* the abort signal was triggered while in flight
  abortedAt,      \* Len(log) when it was triggered
  outcome         \* what the request met: pending, noKey, delegated,
                  \* fetchRejected, notOk, noBody, readFailed, ended, aborted

streamVars == << provider, hasApiKey, frames, terminated, wire, pos, pc, buffer,
                 usageMetadata, log, fetchIssued, readerLock, aborted, abortedAt,
                 outcome >>

VARIABLES
  providers,      \* ProviderRegistryImpl.providers: id -> adapter
  gamPc,          \* getAllAvailableModels: idle, await (a listing), done (resolved)
  gamConfigs,     \* its providerConfigs argument
  gamIdx,         \* the config whose getAvailableModels is awaited
  allModels,      \* the models collected so far, in collection order
  gamOutcomes,    \* what happened for each config handled so far
  gamResult,      \* the list the call resolved with
  gpfPc,          \* getProviderForModel: idle, done (returned)
  gpfModelId,     \* its modelId argument,
  gpfConfigs,     \* its providerConfigs argument,
  gpfResult       \* and what it returned (<<>> is null)

listingVars == << gamPc, gamConfigs, gamIdx, allModels, gamOutcomes, gamResult >>
routingVars == << gpfPc, gpfModelId, gpfConfigs, gpfResult >>
registryVars == << providers, listingVars, routingVars >>

VARIABLES
  apiKeysString,  \* getAvailableModelsApi: its argument, <<>> for null
  storedSettings, \* localStorage 'app-settings' as it is read
  apiPc,          \* idle, unified1, unified2, proxy, sdk, resolved, rejected
  apiCalls,       \* the services called so far, in order
  apiAnswers,     \* what they answered, in order
  randomKey,      \* the key getLegacyGeminiModels picked, "" before
  apiResult,      \* the list the call resolved with
  apiError        \* the message of the error the call rejected with

facadeVars == << apiKeysString, storedSettings, apiPc, apiCalls, apiAnswers, randomKey,
                 apiResult, apiError >>

VARIABLES
  defaultProviders, \* the objects of the DEFAULT_PROVIDERS array, as they are now
  gpcPc,            \* getProviderConfigs: idle, done (returned)
  gpcSettings,      \* its appSettings argument
  gpcResult,        \* the list it returned
  gpcCalls          \* how many derivations were made

derivationVars == << defaultProviders, gpcPc, gpcSettings, gpcResult, gpcCalls >>

VARIABLES
  history,           \* the ChatHistoryItem list handed to the adapter
  systemInstruction, \* and the system instruction
  convPc,            \* the conversion: idle, done (returned)
  convProvider,      \* the adapter whose conversion ran
  messages           \* the messages it returned

conversionVars == << history, systemInstruction, convPc, convProvider, messages >>

VARIABLES
  reqProvider,      \* the adapter a method is called on
  reqOp,            \* the method: getAvailableModels, sendMessageStream,
                    \* sendMessageNonStream
  reqApiKey,        \* config.apiKey ("" when not set)
  reqCustomHeaders, \* config.customHeaders (<<>> when not set)
  reqPc,            \* idle, rejected, issued, fetch, errorText, json, done
  reqHeaders,       \* the headers handed to fetch (<<>> before)
  nsLog,            \* sendMessageNonStream: the callbacks invoked, in order
  nsOutcome,        \* what the request met
  nsResponse        \* and the body of the 2xx response (<<>> before)

requestVars == << reqProvider, reqOp, reqApiKey, reqCustomHeaders, reqPc, reqHeaders,
                  nsLog, nsOutcome, nsResponse >>

VARIABLES
  providerConfigs,  \* ProviderConfigSection: the providerConfigs prop
  now,              \* Date.now()
  lastOp,           \* the settings action performed last ("" before)
  lastId            \* and the provider id it was given ("" when it takes none)

settingsVars == << providerConfigs, now, lastOp, lastId >>

\* two sendMessageStream calls in flight at once
VARIABLES
  sends           \* per call: its arguments, its position, its locals, its callbacks' log

sendsVars == << sends >>

\* leaving the try blocks of a send
VARIABLES
  releases,         \* the calls of reader.releaseLock(): for each, the callbacks invoked before it
  onCompleteThrows  \* the caller's onComplete callback throws (input)

exitVars == << releases, onCompleteThrows >>

\* the request body of a send
VARIABLES
  genProvider,      \* the adapter the send is called on
  genStream,        \* sendMessageStream (TRUE) or sendMessageNonStream (FALSE)
  generationConfig, \* the generationConfig argument
  requestBody       \* the generation fields of the body handed to fetch, <<>> before

bodyVars == << genProvider, genStream, generationConfig, requestBody >>

\* one getAvailableModels call on a custom adapter
VARIABLES
  clConfig,       \* its config argument
  clPc,           \* idle, fetch, json, resolved, rejected
  clAnswer,       \* what the endpoint answered: <<>> before, then << answer >>
  clResult        \* the list the call resolved with

customListVars == << clConfig, clPc, clAnswer, clResult >>

\* the chat history hook
VARIABLES
  savedSessions,    \* useState: the saved sessions
  activeSessionId,  \* useState: the active session's id, 0 for null
  chatMessages,     \* the messages prop: the ids of the current messages
  storedSessions,   \* localStorage CHAT_HISTORY_SESSIONS_KEY
  storedActiveId,   \* localStorage ACTIVE_CHAT_SESSION_ID_KEY, 0 when absent
  saveTimer,        \* sessionSaveTimeoutRef's pending timer: <<>> or << its closure >>
  dateNow,          \* Date.now()
  uniqueIds,        \* ids handed out by generateUniqueId so far
  deletedIds,       \* the ids handleDeleteChatHistorySession was called with
  histOp            \* the last step of the hook

historyVars == << savedSessions, activeSessionId, chatMessages, storedSessions,
                  storedActiveId, saveTimer, dateNow, uniqueIds, deletedIds, histOp >>

vars == << streamVars, registryVars, facadeVars, derivationVars, conversionVars, requestVars, settingsVars, sendsVars, exitVars, bodyVars, customListVars, historyVars >>

\* what the operations of one part leave alone
notStreamVars     == << registryVars, facadeVars, derivationVars, conversionVars, requestVars, settingsVars, sendsVars, exitVars, bodyVars, customListVars, historyVars >>
notRegistryVars   == << streamVars, facadeVars, derivationVars, conversionVars, requestVars, settingsVars, sendsVars, exitVars, bodyVars, customListVars, historyVars >>
notFacadeVars     == << streamVars, registryVars, derivationVars, conversionVars, requestVars, settingsVars, sendsVars, exitVars, bodyVars, customListVars, historyVars >>
notDerivationVars == << streamVars, registryVars, facadeVars, conversionVars, requestVars, settingsVars, sendsVars, exitVars, bodyVars, customListVars, historyVars >>
notConversionVars == << streamVars, registryVars, facadeVars, derivationVars, requestVars, settingsVars, sendsVars, exitVars, bodyVars, customListVars, historyVars >>
notRequestVars == << streamVars, registryVars, facadeVars, derivationVars, conversionVars, settingsVars, sendsVars, exitVars, bodyVars, customListVars, historyVars >>
notSettingsVars == << streamVars, registryVars, facadeVars, derivationVars, conversionVars, requestVars, sendsVars, exitVars, bodyVars, customListVars, historyVars >>
notSendsVars == << streamVars, registryVars, facadeVars, derivationVars, conversionVars, requestVars, settingsVars, exitVars, bodyVars, customListVars, historyVars >>
notExitVars == << streamVars, registryVars, facadeVars, derivationVars, conversionVars, requestVars, settingsVars, sendsVars, bodyVars, customListVars, historyVars >>
notStreamExitVars == << registryVars, facadeVars, derivationVars, conversionVars, requestVars, settingsVars, sendsVars, bodyVars, customListVars, historyVars >>
notBodyVars == << streamVars, registryVars, facadeVars, derivationVars, conversionVars, requestVars, settingsVars, sendsVars, exitVars, customListVars, historyVars >>
notCustomListVars == << streamVars, registryVars, facadeVars, derivationVars, conversionVars, requestVars, settingsVars, sendsVars, exitVars, bodyVars, historyVars >>
notHistoryVars == << streamVars, registryVars, facadeVars, derivationVars, conversionVars, requestVars, settingsVars, sendsVars, exitVars, bodyVars, customListVars >>

OnPart(t)     == [cb |-> "onPart", text |-> t, usage |-> <<>>, error |-> ""]
OnComplete(u) == [cb |-> "onComplete", text |-> "", usage |-> u, error |-> ""]
OnError(e)    == [cb |-> "onError", text |-> "", usage |-> <<>>, error |-> e]

RECURSIVE OnParts(_)
OnParts(ts) == IF ts = <<>> THEN <<>> ELSE <<OnPart(Head(ts))>> \o OnParts(Tail(ts))

StreamInit ==
  /\ provider \in StreamProviders
  /\ hasApiKey \in BOOLEAN
  /\ frames \in (IF provider \in SSEProviders /\ hasApiKey
                 THEN SeqsUpTo(FrameKinds(provider), MaxFrames) ELSE { <<>> })
  /\ terminated \in (IF frames = <<>> THEN {TRUE} ELSE BOOLEAN)
  /\ wire = (IF provider \in SSEProviders
             THEN Encode(provider, frames, terminated) ELSE <<>>)
  /\ pos = 0
  /\ pc = "idle"
  /\ buffer = <<>>
  /\ usageMetadata = <<>>
  /\ log = <<>>
  /\ fetchIssued = FALSE
  /\ readerLock = "none"
  /\ aborted = FALSE
  /\ abortedAt = 0
  /\ outcome = "pending"

(***************************************************************************)
(* sendMessageStream                                                       *)
(***************************************************************************)
\* What a call without config.apiKey does.  Gemini checks inside its try
\* block, so the error reaches onError; the other adapters throw before the
\* try block, so the returned promise rejects and no callback is invoked.
NoKeyOutcome(p) ==
  IF p = GEMINI
  THEN [pc |-> "done", log |-> <<OnError("Gemini API key not configured")>>]
  ELSE [pc |-> "rejected", log |-> <<>>]

\* The call up to its first await: the key check, then fetch() (Gemini:
\* the delegation to the Gemini service, which takes the callbacks over).
Call ==
  /\ pc = "idle"
  /\ IF ~hasApiKey
     THEN /\ pc' = NoKeyOutcome(provider).pc
          /\ log' = NoKeyOutcome(provider).log
          /\ fetchIssued' = FALSE
     ELSE /\ pc' = IF provider = GEMINI THEN "delegated" ELSE "fetch"
          /\ log' = log
          /\ fetchIssued' = (provider # GEMINI)
  /\ outcome' = IF ~hasApiKey THEN "noKey"
                ELSE IF provider = GEMINI THEN "delegated" ELSE outcome
  /\ UNCHANGED << provider, hasApiKey, frames, terminated, wire, pos, buffer,
                  usageMetadata, readerLock, aborted, abortedAt >>
  /\ UNCHANGED notStreamVars

\* Catch logging the error without calling onError
ThrownByOnComplete == "onComplete threw"

\* variant: the lock is released after the terminal callback instead of in
\* the finally block
Finally_AfterCallback(l) == Append(releases, Len(l) + 1)

\* finally { reader.releaseLock(); }: runs when the inner try block is left,
\* by break or by a throw, before what follows it or the outer catch; l is
\* the log at that moment
Finally(l) == Append(releases, Len(l))

\* onComplete(usageMetadata), the last statement of the outer try block: when
\* the callback throws, the catch block runs and calls onError
Complete(l, u) ==
  Append(l, OnComplete(u))
  \o (IF onCompleteThrows THEN << OnError(ThrownByOnComplete) >> ELSE <<>>)

Catch_LogOnly(e) ==
  /\ log' = log
  /\ pc' = "done"

\* the catch block: onError(error)
Catch(e) ==
  /\ log' = Append(log, OnError(e))
  /\ pc' = "done"

\* fetch rejects (network failure)
FetchRejects ==
  /\ pc = "fetch" /\ ~aborted
  /\ Catch("fetch failed")
  /\ outcome' = "fetchRejected"
  /\ UNCHANGED << provider, hasApiKey, frames, terminated, wire, pos, buffer,
                  usageMetadata, fetchIssued, readerLock, aborted, abortedAt >>
  /\ UNCHANGED notStreamVars

\* the response is not ok: await response.text()
FetchNotOk ==
  /\ pc = "fetch" /\ ~aborted
  /\ pc' = "errorText"
  /\ outcome' = "notOk"
  /\ UNCHANGED << provider, hasApiKey, frames, terminated, wire, pos, buffer,
                  usageMetadata, log, fetchIssued, readerLock, aborted, abortedAt >>
  /\ UNCHANGED notStreamVars

\* response.text() settles; either way an error is thrown into the catch
ErrorTextSettles ==
  /\ pc = "errorText" /\ ~aborted
  /\ Catch("API error")
  /\ UNCHANGED << provider, hasApiKey, frames, terminated, wire, pos, buffer,
                  usageMetadata, fetchIssued, readerLock, aborted, abortedAt,
                  outcome >>
  /\ UNCHANGED notStreamVars

\* the response is ok but has no body
FetchNoBody ==
  /\ pc = "fetch" /\ ~aborted
  /\ Catch("No response body reader available")
  /\ outcome' = "noBody"
  /\ UNCHANGED << provider, hasApiKey, frames, terminated, wire, pos, buffer,
                  usageMetadata, fetchIssued, readerLock, aborted, abortedAt >>
  /\ UNCHANGED notStreamVars

\* the response is ok: the reader is acquired, the loop awaits the first read
FetchOk ==
  /\ pc = "fetch" /\ ~aborted
  /\ pc' = "read"
  /\ readerLock' = "held"
  /\ buffer' = <<>>
  /\ usageMetadata' = <<>>
  /\ UNCHANGED << provider, hasApiKey, frames, terminated, wire, pos, log,
                  fetchIssued, aborted, abortedAt,
                  outcome >>
  /\ UNCHANGED notStreamVars

\* reader.read() delivers the next k atoms of the body
ReadChunk(k) ==
  /\ pc = "read" /\ ~aborted
  /\ pos + k <= Len(wire)
  /\ LET r == ProcessChunk(provider, buffer, usageMetadata,
                           SubSeq(wire, pos + 1, pos + k))
     IN  /\ buffer' = r.buffer
         /\ usageMetadata' = r.usage
         /\ log' = log \o OnParts(r.parts)
  /\ pos' = pos + k
  /\ UNCHANGED << provider, hasApiKey, frames, terminated, wire, pc, fetchIssued,
                  readerLock, aborted, abortedAt,
                  outcome >>
  /\ UNCHANGED notStreamVars

\* reader.read() reports done: break, releaseLock, onComplete(usageMetadata)
ReadDone ==
  /\ pc = "read" /\ ~aborted
  /\ pos = Len(wire)
  /\ readerLock' = "released"
  /\ releases' = Finally(log)
  /\ log' = Complete(log, usageMetadata)
  /\ pc' = "done"
  /\ outcome' = "ended"
  /\ UNCHANGED << provider, hasApiKey, frames, terminated, wire, pos, buffer,
                  usageMetadata, fetchIssued, aborted, abortedAt >>
  /\ UNCHANGED << onCompleteThrows, notStreamExitVars >>

\* reader.read() rejects (the connection breaks): releaseLock, catch
ReadFails ==
  /\ pc = "read" /\ ~aborted
  /\ readerLock' = "released"
  /\ releases' = Finally(log)
  /\ Catch("read failed")
  /\ outcome' = "readFailed"
  /\ UNCHANGED << provider, hasApiKey, frames, terminated, wire, pos, buffer,
                  usageMetadata, fetchIssued, aborted, abortedAt >>
  /\ UNCHANGED << onCompleteThrows, notStreamExitVars >>

\* the caller triggers the abort signal while the call awaits the network
Abort ==
  /\ pc \in {"fetch", "errorText", "read"} /\ ~aborted
  /\ aborted' = TRUE
  /\ abortedAt' = Len(log)
  /\ outcome' = "aborted"
  /\ UNCHANGED << provider, hasApiKey, frames, terminated, wire, pos, pc, buffer,
                  usageMetadata, log, fetchIssued, readerLock >>
  /\ UNCHANGED notStreamVars

\* the pending fetch / text / read rejects with an AbortError, which runs
\* the finally block (when the reader is held) and the catch block
AbortRejects ==
  /\ pc \in {"fetch", "errorText", "read"} /\ aborted
  /\ readerLock' = IF pc = "read" THEN "released" ELSE readerLock
  /\ releases' = IF pc = "read" THEN Finally(log) ELSE releases
  /\ Catch("AbortError")
  /\ UNCHANGED << provider, hasApiKey, frames, terminated, wire, pos, buffer,
                  usageMetadata, fetchIssued, aborted, abortedAt,
                  outcome >>
  /\ UNCHANGED << onCompleteThrows, notStreamExitVars >>

StreamNext ==
  \/ Call
  \/ FetchRejects
  \/ FetchNotOk
  \/ ErrorTextSettles
  \/ FetchNoBody
  \/ FetchOk
  \/ \E k \in 1..(4 * MaxFrames) : ReadChunk(k)
  \/ ReadDone
  \/ ReadFails
  \/ Abort
  \/ AbortRejects

(***************************************************************************)
(* Part 2: the provider registry                                           *)
(***************************************************************************)
\* a ModelOption, reduced to the fields the registry reads or sorts by
Model(id, name, providerId, providerName) ==
  [id |-> id, name |-> name, providerId |-> providerId, providerName |-> providerName]

FALLBACK_MODELS ==
  [ gemini |->
      << Model("gemini-2.5-flash", "Gemini 2.5 Flash", GEMINI, "Google Gemini"),
         Model("gemini-2.5-pro", "Gemini 2.5 Pro", GEMINI, "Google Gemini"),
         Model("gemini-2.5-flash-lite", "Gemini 2.5 Flash Lite", GEMINI, "Google Gemini") >>,
    openai |->
      << Model("gpt-4o", "GPT-4o", OPENAI, "OpenAI"),
         Model("gpt-4o-mini", "GPT-4o Mini", OPENAI, "OpenAI"),
         Model("gpt-4", "GPT-4", OPENAI, "OpenAI"),
         Model("gpt-3.5-turbo", "GPT-3.5 Turbo", OPENAI, "OpenAI") >>,
    anthropic |->
      << Model("claude-3-5-sonnet-20241022", "Claude 3.5 Sonnet", ANTHROPIC, "Anthropic Claude"),
         Model("claude-3-5-haiku-20241022", "Claude 3.5 Haiku", ANTHROPIC, "Anthropic Claude"),
         Model("claude-3-opus-20240229", "Claude 3 Opus", ANTHROPIC, "Anthropic Claude") >> ]

\* the adapter singletons: identity and the class whose methods they run
geminiProvider    == [id |-> GEMINI, name |-> "Google Gemini", kind |-> GEMINI]
openaiProvider    == [id |-> OPENAI, name |-> "OpenAI", kind |-> OPENAI]
anthropicProvider == [id |-> ANTHROPIC, name |-> "Anthropic Claude", kind |-> ANTHROPIC]
customProvider    == [id |-> CUSTOM, name |-> "Custom Provider", kind |-> CUSTOM]

\* Object.create(customProvider) with id and name overwritten
CustomProviderInstance(config) ==
  [id |-> config.id, name |-> config.name, kind |-> customProvider.kind]

(***************************************************************************)
(* Inputs: provider configs, listing responses, model ids                  *)
(***************************************************************************)
CustomId == "custom-1700000000000"

Config(id, name, enabled, apiKey) ==
  [id |-> id, name |-> name, enabled |-> enabled, apiKey |-> apiKey]

\* apiKey is "" when not set; it varies where the adapter's listing reads it
ProviderConfigs ==
  { Config(GEMINI, "Google Gemini", e, "key") : e \in BOOLEAN }
  \cup { Config(OPENAI, "OpenAI", e, k) : e \in BOOLEAN, k \in {"", "key"} }
  \cup { Config(ANTHROPIC, "Anthropic Claude", e, "") : e \in BOOLEAN }
  \cup { Config(CUSTOM, "Custom Provider", e, "key") : e \in BOOLEAN }
  \cup { Config(CustomId, n, e, k) :
           n \in {"Local LLM", "OpenAI"}, e \in BOOLEAN, k \in {"", "key"} }

ConfigLists == SeqsUpTo(ProviderConfigs, MaxConfigs)

\* what the network (for Gemini: the Gemini service) answers to a listing
ListingResponses == {"fail", "ok"}

\* the listings a server answers with when it answers
GeminiServiceModels ==
  << [id |-> "models/gemini-2.5-pro", name |-> "Gemini 2.5 Pro"],
     [id |-> "models/gemini-2.0-flash", name |-> "Gemini 2.0 Flash"] >>
OpenAIListing == << "gpt-4o", "dall-e-3", "gpt-4" >>
CustomListing == << "llama-3", "gpt-4o" >>

ModelIds ==
  { "gemini-2.5-flash", "models/gemini-2.5-pro", "gpt-4o", "text-davinci-003",
    "davinci-002", "curie", "babbage-002", "ada", "claude-3-opus-20240229",
    "llama-3", "o1-mini", "my-claude" }

(***************************************************************************)
(* String.prototype.localeCompare (root collation): strings compare by     *)
(* their characters' primary weights (space, punctuation, digits, letters  *)
(* without regard to case), a proper prefix first; strings equal at that   *)
(* level compare by case, lower case first.                                *)
(***************************************************************************)
CollationOrder == " -./0123456789abcdefghijklmnopqrstuvwxyz"
LowerCase == "abcdefghijklmnopqrstuvwxyz"
UpperCase == "ABCDEFGHIJKLMNOPQRSTUVWXYZ"

IndexIn(str, ch) ==
  IF \E i \in 1..Len(str) : CharAt(str, i) = ch
  THEN CHOOSE i \in 1..Len(str) : CharAt(str, i) = ch
  ELSE 0

ToLower(ch) ==
  IF IndexIn(UpperCase, ch) = 0 THEN ch ELSE CharAt(LowerCase, IndexIn(UpperCase, ch))
ToUpper(ch) ==
  IF IndexIn(LowerCase, ch) = 0 THEN ch ELSE CharAt(UpperCase, IndexIn(LowerCase, ch))

PrimaryWeight(ch) == IndexIn(CollationOrder, ToLower(ch))
CaseWeight(ch) == IF IndexIn(UpperCase, ch) = 0 THEN 0 ELSE 1

RECURSIVE CompareBy(_, _, _, _)
CompareBy(a, b, i, level) ==
  IF i > Len(a) /\ i > Len(b) THEN 0
  ELSE IF i > Len(a) THEN -1
  ELSE IF i > Len(b) THEN 1
  ELSE LET wa == IF level = 1 THEN PrimaryWeight(CharAt(a, i)) ELSE CaseWeight(CharAt(a, i))
           wb == IF level = 1 THEN PrimaryWeight(CharAt(b, i)) ELSE CaseWeight(CharAt(b, i))
       IN  IF wa < wb THEN -1 ELSE IF wa > wb THEN 1 ELSE CompareBy(a, b, i + 1, level)

Collate(a, b) ==
  IF CompareBy(a, b, 1, 1) # 0 THEN CompareBy(a, b, 1, 1) ELSE CompareBy(a, b, 1, 2)

(***************************************************************************)
(* The adapters' getAvailableModels                                        *)
(***************************************************************************)
\* OpenAIProvider.formatModelName: nameMap[modelId] || modelId
OpenAINameMap ==
  [m \in {"gpt-4o", "gpt-4o-mini", "gpt-4-turbo", "gpt-4", "gpt-3.5-turbo"} |->
     CASE m = "gpt-4o" -> "GPT-4o"
       [] m = "gpt-4o-mini" -> "GPT-4o Mini"
       [] m = "gpt-4-turbo" -> "GPT-4 Turbo"
       [] m = "gpt-4" -> "GPT-4"
       [] m = "gpt-3.5-turbo" -> "GPT-3.5 Turbo"]

OpenAIFormatModelName(modelId) ==
  IF modelId \in DOMAIN OpenAINameMap THEN OpenAINameMap[modelId] ELSE modelId

\* CustomProvider.formatModelName: split('-'), capitalize each word, join(' ')
RECURSIVE CustomFormatFrom(_, _)
CustomFormatFrom(s, i) ==
  IF i > Len(s) THEN ""
  ELSE IF CharAt(s, i) = "-" THEN " " \o CustomFormatFrom(s, i + 1)
  ELSE (IF i = 1 \/ CharAt(s, i - 1) = "-" THEN ToUpper(CharAt(s, i)) ELSE CharAt(s, i))
       \o CustomFormatFrom(s, i + 1)

CustomFormatModelName(modelId) == CustomFormatFrom(modelId, 1)

\* the default model a custom provider lists when its endpoint fails
CustomDefaultModel(config) == Model("default", "Default Model", config.id, config.name)

AnthropicPredefinedModels ==
  << [id |-> "claude-3-5-sonnet-20241022", name |-> "Claude 3.5 Sonnet"],
     [id |-> "claude-3-5-haiku-20241022", name |-> "Claude 3.5 Haiku"],
     [id |-> "claude-3-opus-20240229", name |-> "Claude 3 Opus"],
     [id |-> "claude-3-sonnet-20240229", name |-> "Claude 3 Sonnet"],
     [id |-> "claude-3-haiku-20240307", name |-> "Claude 3 Haiku"] >>

(***************************************************************************)
(* The legacy Gemini listing: what a server lists and how it is surfaced   *)
(***************************************************************************)
MaxModels == 2

\* a listed model: displayName "" is a missing display name; supportedActions
\* is <<>> when the field is absent and << actions >> when it is an array
RawModel(name, displayName, supportedActions) ==
  [name |-> name, displayName |-> displayName, supportedActions |-> supportedActions]

RawModels ==
  { RawModel("models/gemini-2.5-pro", "Gemini 2.5 Pro",
             << <<"generateContent", "countTokens">> >>),
    RawModel("models/imagen-3", "", << <<"predict", "generateImages">> >>),
    RawModel("models/embedding-001", "Embedding 001", << <<"embedContent">> >>),
    RawModel("aqa", "", <<>>),
    RawModel("models/text-bison", "Text Bison", << <<>> >>) }

RawListings == SeqsUpTo(RawModels, MaxModels)

\* s.split(sep) for a separator of one character
RECURSIVE SplitFrom(_, _, _, _)
SplitFrom(s, sep, i, cur) ==
  IF i > Len(s) THEN << cur >>
  ELSE IF CharAt(s, i) = sep THEN << cur >> \o SplitFrom(s, sep, i + 1, "")
  ELSE SplitFrom(s, sep, i + 1, cur \o CharAt(s, i))

SplitString(s, sep) == SplitFrom(s, sep, 1, "")

\* model.displayName || model.name.split('/').pop() || model.name
LegacyModelName(m) ==
  IF m.displayName # "" THEN m.displayName
  ELSE IF Last(SplitString(m.name, "/")) # "" THEN Last(SplitString(m.name, "/"))
  ELSE m.name

\* array.includes(x)
ArrayIncludes(arr, x) == \E i \in 1..Len(arr) : arr[i] = x

\* variant: only models that declare generateContent
IsSurfaced_ContentOnly(m) ==
  /\ m.supportedActions # <<>>
  /\ ArrayIncludes(m.supportedActions[1], "generateContent")

\* !supported || supported.includes('generateContent') ||
\* supported.includes('generateImages')
IsSurfaced(m) ==
  \/ m.supportedActions = <<>>
  \/ ArrayIncludes(m.supportedActions[1], "generateContent")
  \/ ArrayIncludes(m.supportedActions[1], "generateImages")

\* the loop that pushes the surfaced models as ModelOptions
RECURSIVE LegacyAvailableModels(_)
LegacyAvailableModels(raw) ==
  IF raw = <<>> THEN <<>>
  ELSE (IF IsSurfaced(Head(raw))
        THEN << Model(Head(raw).name, LegacyModelName(Head(raw)), "gemini", "Google Gemini") >>
        ELSE <<>>)
       \o LegacyAvailableModels(Tail(raw))

\* an entry of a custom endpoint's listing: id, name, model, displayName, ""
\* for a field that is absent
CustomRaw(id, name, model, displayName) ==
  [id |-> id, name |-> name, model |-> model, displayName |-> displayName]

CustomRawEntries ==
  { CustomRaw("llama-3", "", "", ""), CustomRaw("", "mistral-7b", "", ""),
    CustomRaw("", "", "phi-3", ""), CustomRaw("gpt-4o", "", "", "GPT-4o") }

\* a || b on strings
OrString(a, b) == IF a # "" THEN a ELSE b

\* model.id || model.name || model.model
CustomEntryId(m) == OrString(m.id, OrString(m.name, m.model))

\* model.displayName || model.id || model.name || model.model
CustomEntryLabel(m) == OrString(m.displayName, CustomEntryId(m))

\* every display string a ModelOption can carry, and localeCompare on them
DisplayNames ==
  { geminiProvider.name, openaiProvider.name, anthropicProvider.name,
    customProvider.name, "Default Model" }
  \cup { c.name : c \in ProviderConfigs }
  \cup UNION { { FALLBACK_MODELS[p][i].name : i \in 1..Len(FALLBACK_MODELS[p]) } :
               p \in DOMAIN FALLBACK_MODELS }
  \cup { AnthropicPredefinedModels[i].name : i \in 1..Len(AnthropicPredefinedModels) }
  \cup { GeminiServiceModels[i].name : i \in 1..Len(GeminiServiceModels) }
  \cup { OpenAIFormatModelName(OpenAIListing[i]) : i \in 1..Len(OpenAIListing) }
  \cup { CustomFormatModelName(CustomListing[i]) : i \in 1..Len(CustomListing) }
  \cup { LegacyModelName(m) : m \in RawModels }
  \cup { CustomFormatModelName(CustomEntryLabel(m)) : m \in CustomRawEntries }

CollationTable == [a \in DisplayNames |-> [b \in DisplayNames |-> Collate(a, b)]]

LocaleCompare(a, b) == CollationTable[a][b]

\* models.sort((a, b) => a.name.localeCompare(b.name)); Array.prototype.sort
\* is stable
RECURSIVE SortByName(_)
SortByName(s) ==
  IF s = <<>> THEN <<>>
  ELSE LET t == SortByName(Front(s))
           x == Last(s)
           k == Cardinality({ i \in 1..Len(t) : LocaleCompare(t[i].name, x.name) <= 0 })
       IN  SubSeq(t, 1, k) \o <<x>> \o SubSeq(t, k + 1, Len(t))

RECURSIVE MapModels(_, _, _)
MapModels(raw, providerId, providerName) ==
  IF raw = <<>> THEN <<>>
  ELSE << Model(Head(raw).id, Head(raw).name, providerId, providerName) >>
       \o MapModels(Tail(raw), providerId, providerName)

\* data.data.filter(id includes 'gpt' or 'text').map(...)
RECURSIVE OpenAIMapModels(_, _)
OpenAIMapModels(ids, self) ==
  IF ids = <<>> THEN <<>>
  ELSE (IF Includes(Head(ids), "gpt") \/ Includes(Head(ids), "text")
        THEN << Model(Head(ids), OpenAIFormatModelName(Head(ids)), self.id, self.name) >>
        ELSE <<>>)
       \o OpenAIMapModels(Tail(ids), self)

RECURSIVE CustomMapModels(_, _)
CustomMapModels(ids, config) ==
  IF ids = <<>> THEN <<>>
  ELSE << Model(Head(ids), CustomFormatModelName(Head(ids)), config.id, config.name) >>
       \o CustomMapModels(Tail(ids), config)

Returned(models) == [threw |-> FALSE, models |-> models]
Threw == [threw |-> TRUE, models |-> <<>>]

\* GeminiProvider.getAvailableModels: the Gemini service's list, or its error
GeminiGetAvailableModels(self, config, resp) ==
  IF resp = "fail" THEN Threw
  ELSE Returned(MapModels(GeminiServiceModels, self.id, self.name))

\* OpenAIProvider.getAvailableModels
OpenAIGetAvailableModels(self, config, resp) ==
  IF config.apiKey = "" THEN Threw
  ELSE IF resp = "fail" THEN Threw
  ELSE Returned(SortByName(OpenAIMapModels(OpenAIListing, self)))

\* AnthropicProvider.getAvailableModels: the predefined list, no request
AnthropicGetAvailableModels(self, config, resp) ==
  Returned(MapModels(AnthropicPredefinedModels, self.id, self.name))

\* CustomProvider.getAvailableModels
CustomGetAvailableModels(self, config, resp) ==
  IF config.apiKey = "" THEN Threw
  ELSE IF resp = "fail" THEN Returned(<< CustomDefaultModel(config) >>)
  ELSE Returned(SortByName(CustomMapModels(CustomListing, config)))

\* provider.getAvailableModels(config)
GetAvailableModels(self, config, resp) ==
  CASE self.kind = GEMINI -> GeminiGetAvailableModels(self, config, resp)
    [] self.kind = OPENAI -> OpenAIGetAvailableModels(self, config, resp)
    [] self.kind = ANTHROPIC -> AnthropicGetAvailableModels(self, config, resp)
    [] self.kind = CUSTOM -> CustomGetAvailableModels(self, config, resp)

(***************************************************************************)
(* ProviderRegistryImpl                                                    *)
(***************************************************************************)
\* the constructor: the three built-in adapters
RegistryConstructed ==
  (GEMINI :> geminiProvider) @@ (OPENAI :> openaiProvider)
  @@ (ANTHROPIC :> anthropicProvider)

\* variant: registers without looking whether the id is taken
RegisterCustomProviderIn_Overwrite(reg, config) ==
  IF config.id # CUSTOM
  THEN [id \in DOMAIN reg \cup {config.id} |->
          IF id = config.id THEN CustomProviderInstance(config) ELSE reg[id]]
  ELSE reg

\* registerCustomProvider(config)
RegisterCustomProviderIn(reg, config) ==
  IF config.id # CUSTOM /\ config.id \notin DOMAIN reg
  THEN reg @@ (config.id :> CustomProviderInstance(config))
  ELSE reg

\* variant: the first loop creates an adapter for every config it sees
RECURSIVE RegisterCustomProviders_Recreate(_, _)
RegisterCustomProviders_Recreate(reg, configs) ==
  IF configs = <<>> THEN reg
  ELSE RegisterCustomProviders_Recreate(
         RegisterCustomProviderIn_Overwrite(reg, Head(configs)), Tail(configs))

\* the first loop of getAllAvailableModels
RECURSIVE RegisterCustomProviders(_, _)
RegisterCustomProviders(reg, configs) ==
  IF configs = <<>> THEN reg
  ELSE RegisterCustomProviders(
         IF Head(configs).id \notin DOMAIN reg
         THEN RegisterCustomProviderIn(reg, Head(configs)) ELSE reg,
         Tail(configs))

\* variant: no fallback list is substituted
FallbackModels_None(id) == <<>>

\* FALLBACK_MODELS[config.id], pushed when it exists
FallbackModels(id) ==
  IF id \in DOMAIN FALLBACK_MODELS THEN FALLBACK_MODELS[id] ELSE <<>>

\* variant: the comparator stops at the provider name
CompareModels_ProviderOnly(a, b) == LocaleCompare(a.providerName, b.providerName)

\* the comparator of the final sort: provider name first, then model name
CompareModels(a, b) ==
  IF LocaleCompare(a.providerName, b.providerName) # 0
  THEN LocaleCompare(a.providerName, b.providerName)
  ELSE LocaleCompare(a.name, b.name)

\* allModels.sort(comparator); Array.prototype.sort is stable
RECURSIVE SortModels(_)
SortModels(s) ==
  IF s = <<>> THEN <<>>
  ELSE LET t == SortModels(Front(s))
           x == Last(s)
           k == Cardinality({ i \in 1..Len(t) : CompareModels(t[i], x) <= 0 })
       IN  SubSeq(t, 1, k) \o <<x>> \o SubSeq(t, k + 1, Len(t))

Outcome(kind, returned) == [kind |-> kind, returned |-> returned]

\* variant: the second loop does not look at config.enabled
RECURSIVE RunLoop_EnabledNotRead(_, _, _, _, _)
RunLoop_EnabledNotRead(reg, configs, i, models, outcomes) ==
  IF i > Len(configs) THEN [idx |-> i, models |-> models, outcomes |-> outcomes]
  ELSE IF configs[i].id \notin DOMAIN reg
       THEN RunLoop_EnabledNotRead(reg, configs, i + 1,
                                   models \o FallbackModels(configs[i].id),
                                   Append(outcomes, Outcome("missing", <<>>)))
  ELSE [idx |-> i, models |-> models, outcomes |-> outcomes]

\* The second loop from config i up to its next await: disabled configs are
\* skipped, a config without adapter contributes its fallback list.  Yields
\* the index of the config whose listing is awaited (Len + 1: none is left).
RECURSIVE RunLoop(_, _, _, _, _)
RunLoop(reg, configs, i, models, outcomes) ==
  IF i > Len(configs) THEN [idx |-> i, models |-> models, outcomes |-> outcomes]
  ELSE IF ~configs[i].enabled
       THEN RunLoop(reg, configs, i + 1, models,
                    Append(outcomes, Outcome("disabled", <<>>)))
  ELSE IF configs[i].id \notin DOMAIN reg
       THEN RunLoop(reg, configs, i + 1, models \o FallbackModels(configs[i].id),
                    Append(outcomes, Outcome("missing", <<>>)))
  ELSE [idx |-> i, models |-> models, outcomes |-> outcomes]

\* the loop has reached st: await the next listing, or sort and resolve
Continue(st, configs) ==
  /\ allModels' = st.models
  /\ gamOutcomes' = st.outcomes
  /\ gamIdx' = st.idx
  /\ IF st.idx > Len(configs)
     THEN gamPc' = "done" /\ gamResult' = SortModels(st.models)
     ELSE gamPc' = "await" /\ gamResult' = gamResult

\* getAllAvailableModels(configs) up to its first await
GetAllAvailableModels(configs) ==
  /\ gamPc = "idle"
  /\ gamConfigs' = configs
  /\ providers' = RegisterCustomProviders(providers, configs)
  /\ Continue(RunLoop(RegisterCustomProviders(providers, configs), configs, 1, <<>>, <<>>),
              configs)
  /\ UNCHANGED << routingVars, notRegistryVars >>

\* the awaited getAvailableModels settles: its models are pushed, or the
\* catch block pushes the fallback list; then the loop goes on
ListingSettles(resp) ==
  /\ gamPc = "await"
  /\ LET config == gamConfigs[gamIdx]
         r      == GetAvailableModels(providers[config.id], config, resp)
         models == IF r.threw THEN allModels \o FallbackModels(config.id)
                   ELSE allModels \o r.models
         out    == IF r.threw THEN Outcome("threw", <<>>) ELSE Outcome("ok", r.models)
     IN  Continue(RunLoop(providers, gamConfigs, gamIdx + 1, models,
                          Append(gamOutcomes, out)), gamConfigs)
  /\ UNCHANGED << providers, gamConfigs, routingVars, notRegistryVars >>

\* registerCustomProvider(config), called on its own
RegisterCustomProvider(config) ==
  /\ providers' = RegisterCustomProviderIn(providers, config)
  /\ UNCHANGED << listingVars, routingVars, notRegistryVars >>

\* isModelFromProvider: the pattern of the provider id, if it has one, is
\* tested against the model id; each pattern is an alternation of prefixes
Patterns ==
  [ gemini    |-> {"gemini", "models/gemini"},
    openai    |-> {"gpt-", "text-", "davinci", "curie", "babbage", "ada"},
    anthropic |-> {"claude"} ]

IsModelFromProvider(modelId, providerId) ==
  IF providerId \in DOMAIN Patterns
  THEN \E pre \in Patterns[providerId] : StartsWith(modelId, pre)
  ELSE FALSE

\* variant: the last hit instead of the first
Min_Last(S) == CHOOSE i \in S : \A j \in S : j <= i

Min(S) == CHOOSE i \in S : \A j \in S : i <= j

\* variant: the pattern pass is left out, list order decides
ProviderForModel_ListOrder(reg, modelId, configs) ==
  LET usable == { i \in 1..Len(configs) :
                    configs[i].enabled /\ configs[i].id \in DOMAIN reg }
  IN  IF usable # {}
      THEN << [provider |-> reg[configs[Min(usable)].id], config |-> configs[Min(usable)]] >>
      ELSE <<>>

\* getProviderForModel(modelId, providerConfigs): <<>> is null
ProviderForModel(reg, modelId, configs) ==
  LET usable  == { i \in 1..Len(configs) :
                     configs[i].enabled /\ configs[i].id \in DOMAIN reg }
      byMatch == { i \in usable : IsModelFromProvider(modelId, configs[i].id) }
  IN  IF byMatch # {}
      THEN << [provider |-> reg[configs[Min(byMatch)].id], config |-> configs[Min(byMatch)]] >>
      ELSE IF usable # {}
      THEN << [provider |-> reg[configs[Min(usable)].id], config |-> configs[Min(usable)]] >>
      ELSE <<>>

\* variant: the call registers the custom providers of its list first, as
\* getAllAvailableModels does
GetProviderForModel_Registers(modelId, configs) ==
  /\ gpfPc = "idle"
  /\ gpfPc' = "done"
  /\ gpfModelId' = modelId
  /\ gpfConfigs' = configs
  /\ providers' = RegisterCustomProviders(providers, configs)
  /\ gpfResult' = ProviderForModel(RegisterCustomProviders(providers, configs), modelId, configs)
  /\ UNCHANGED << listingVars, notRegistryVars >>

\* one call is observed; gpfPc tells whether it has been made
GetProviderForModel(modelId, configs) ==
  /\ gpfPc = "idle"
  /\ gpfPc' = "done"
  /\ gpfModelId' = modelId
  /\ gpfConfigs' = configs
  /\ gpfResult' = ProviderForModel(providers, modelId, configs)
  /\ UNCHANGED << providers, listingVars, notRegistryVars >>

RegistryInit ==
  /\ providers = RegistryConstructed
  /\ gamPc = "idle"
  /\ gamConfigs = <<>>
  /\ gamIdx = 0
  /\ allModels = <<>>
  /\ gamOutcomes = <<>>
  /\ gamResult = <<>>
  /\ gpfPc = "idle"
  /\ gpfModelId = ""
  /\ gpfConfigs = <<>>
  /\ gpfResult = <<>>

\* no sendMessageStream call is made
StreamIdle ==
  /\ provider = GEMINI
  /\ hasApiKey = FALSE
  /\ frames = <<>>
  /\ terminated = TRUE
  /\ wire = <<>>
  /\ pos = 0
  /\ pc = "idle"
  /\ buffer = <<>>
  /\ usageMetadata = <<>>
  /\ log = <<>>
  /\ fetchIssued = FALSE
  /\ readerLock = "none"
  /\ aborted = FALSE
  /\ abortedAt = 0
  /\ outcome = "pending"

(***************************************************************************)
(* Part 3: the model listing facade (getAvailableModelsApi) and the legacy *)
(* Gemini listing (getLegacyGeminiModels)                                  *)
(***************************************************************************)
\* Math.random() is drawn from n / RandomSteps, n in 0..RandomSteps-1
RandomSteps == 4

\* the app-settings item: absent, not JSON, or an object with these fields
Settings(stored, isArray, multiple, custom, url) ==
  [stored |-> stored, providerConfigsIsArray |-> isArray,
   useMultipleProviders |-> multiple, useCustomApiConfig |-> custom,
   apiProxyUrl |-> url]

\* storedSettings ? JSON.parse(storedSettings) : {}
EmptySettings(stored) == Settings(stored, FALSE, "unset", FALSE, "")

ProxyUrl == "https://proxy.example/v1beta"

StoredSettingsValues ==
  { EmptySettings("absent"), EmptySettings("invalid") }
  \cup { Settings("object", a, m, c, u) :
           a \in BOOLEAN, m \in {"unset", "true", "false"}, c \in BOOLEAN,
           u \in {"", ProxyUrl} }

\* the caller's key string: null, or lines of keys
ApiKeysStrings ==
  { <<>>, << "" >>, << " \n\t\n" >>, << "k1" >>, << " k1 \n\nk2" >>,
    << "k1\nk2\n k3 " >> }

WhiteSpace == { " ", "\t", "\n", "\r" }

Max(S) == CHOOSE i \in S : \A j \in S : j <= i

\* variant: the key lines are taken as they are
Trim_None(s) == s

\* k.trim()
Trim(s) ==
  LET I == { i \in 1..Len(s) : CharAt(s, i) \notin WhiteSpace }
  IN  IF I = {} THEN "" ELSE SubSeq(s, Min(I), Max(I))

RECURSIVE TrimAll(_)
TrimAll(ks) == IF ks = <<>> THEN <<>> ELSE << Trim(Head(ks)) >> \o TrimAll(Tail(ks))

\* (apiKeysString || '').split('\n').map(k => k.trim()).filter(Boolean)
Keys(keysString) ==
  SelectSeq(TrimAll(SplitString(IF keysString = <<>> THEN "" ELSE keysString[1], "\n")),
            LAMBDA k : k # "")

\* keys[Math.floor(Math.random() * keys.length)], Math.random() = n / RandomSteps
PickKey(keys, n) == keys[((n * Len(keys)) \div RandomSteps) + 1]

\* what the services answer
UnifiedResults == { <<>>, FALLBACK_MODELS[GEMINI] }

Answer(kind, models, message) == [kind |-> kind, models |-> models, message |-> message]

UnifiedAnswers ==
  { Answer("throws", <<>>, "unified failed") }
  \cup { Answer("models", l, "") : l \in UnifiedResults }

\* proxyService.getModels: throws, a falsy response, a response without
\* models, or a response with models
ProxyAnswers ==
  { Answer("throws", <<>>, "proxy timeout"), Answer("null", <<>>, ""),
    Answer("noModels", <<>>, "") }
  \cup { Answer("models", l, "") : l \in RawListings }

\* ai.models.list() and the iteration of its pager: throws, or the models
SdkAnswers ==
  { Answer("throws", <<>>, "sdk quota") } \cup { Answer("models", l, "") : l \in RawListings }

\* merged: the caller's key string is spread into the settings as apiKey
UnifiedCall(settings, merged, apiKey) ==
  [fn |-> "unified", settings |-> settings, merged |-> merged, apiKey |-> apiKey]
ProxyCall(key) == [fn |-> "proxy", key |-> key]
SdkCall(key, baseUrl) == [fn |-> "sdk", key |-> key, baseUrl |-> baseUrl]

NoKeysMessage == "API client not initialized. Configure API Key in settings."
EmptyListMessage == "API returned an empty list of models."

\* the promise settles
Resolve(models) ==
  /\ apiPc' = "resolved"
  /\ apiResult' = models
  /\ apiError' = apiError

Reject(message) ==
  /\ apiPc' = "rejected"
  /\ apiError' = message
  /\ apiResult' = apiResult

\* the direct listing through the vendor SDK is started
CallSdk(key) ==
  /\ apiPc' = "sdk"
  /\ apiCalls' = Append(apiCalls, SdkCall(key, storedSettings.apiProxyUrl))
  /\ UNCHANGED << apiResult, apiError >>

\* getLegacyGeminiModels up to its first await; n is the random draw
GetLegacyGeminiModels(n) ==
  IF Keys(apiKeysString) = <<>>
  THEN /\ Reject(NoKeysMessage)
       /\ UNCHANGED << apiCalls, randomKey >>
  ELSE /\ randomKey' = PickKey(Keys(apiKeysString), n)
       /\ IF storedSettings.useCustomApiConfig /\ storedSettings.apiProxyUrl # ""
          THEN /\ apiPc' = "proxy"
               /\ apiCalls' = Append(apiCalls, ProxyCall(randomKey'))
               /\ UNCHANGED << apiResult, apiError >>
          ELSE CallSdk(randomKey')

\* variant: step 2 hands the stored settings on without the caller's key
GetAvailableModelsApi_KeyNotMerged(n) ==
  /\ apiPc = "idle"
  /\ IF storedSettings.stored = "invalid"
     THEN /\ Reject("SyntaxError")
          /\ UNCHANGED << apiCalls, randomKey >>
     ELSE IF storedSettings.providerConfigsIsArray
     THEN /\ apiPc' = "unified1"
          /\ apiCalls' = << UnifiedCall(storedSettings, FALSE, <<>>) >>
          /\ UNCHANGED << randomKey, apiResult, apiError >>
     ELSE IF storedSettings.useMultipleProviders # "false"
     THEN /\ apiPc' = "unified2"
          /\ apiCalls' = << UnifiedCall(storedSettings, FALSE, <<>>) >>
          /\ UNCHANGED << randomKey, apiResult, apiError >>
     ELSE GetLegacyGeminiModels(n)
  /\ UNCHANGED << apiKeysString, storedSettings, apiAnswers, notFacadeVars >>

\* getAvailableModelsApi(apiKeysString) up to its first await
GetAvailableModelsApi(n) ==
  /\ apiPc = "idle"
  /\ IF storedSettings.stored = "invalid"
     THEN /\ Reject("SyntaxError")
          /\ UNCHANGED << apiCalls, randomKey >>
     ELSE IF storedSettings.providerConfigsIsArray
     THEN /\ apiPc' = "unified1"
          /\ apiCalls' = << UnifiedCall(storedSettings, FALSE, <<>>) >>
          /\ UNCHANGED << randomKey, apiResult, apiError >>
     ELSE IF storedSettings.useMultipleProviders # "false"
     THEN /\ apiPc' = "unified2"
          /\ apiCalls' = << UnifiedCall(storedSettings, TRUE, apiKeysString) >>
          /\ UNCHANGED << randomKey, apiResult, apiError >>
     ELSE GetLegacyGeminiModels(n)
  /\ UNCHANGED << apiKeysString, storedSettings, apiAnswers, notFacadeVars >>

\* variant: an error of the unified service always falls through to the
\* legacy listing
UnifiedSettles_FallsThrough(answer, n) ==
  /\ apiPc \in {"unified1", "unified2"}
  /\ IF answer.kind = "models"
     THEN Resolve(answer.models) /\ UNCHANGED << apiCalls, randomKey >>
     ELSE GetLegacyGeminiModels(n)
  /\ apiAnswers' = Append(apiAnswers, answer)
  /\ UNCHANGED << apiKeysString, storedSettings, notFacadeVars >>

\* unifiedModelService.getAvailableModels settles
UnifiedSettles(answer, n) ==
  /\ apiPc \in {"unified1", "unified2"}
  /\ IF answer.kind = "models"
     THEN Resolve(answer.models) /\ UNCHANGED << apiCalls, randomKey >>
     ELSE IF apiPc = "unified1"
     THEN Reject(answer.message) /\ UNCHANGED << apiCalls, randomKey >>
     ELSE GetLegacyGeminiModels(n)
  /\ apiAnswers' = Append(apiAnswers, answer)
  /\ UNCHANGED << apiKeysString, storedSettings, notFacadeVars >>

\* variant: a failed proxy listing is retried through the SDK
ProxySettles_RetriesDirect(answer) ==
  /\ apiPc = "proxy"
  /\ IF answer.kind = "models" /\ LegacyAvailableModels(answer.models) # <<>>
     THEN Resolve(SortByName(LegacyAvailableModels(answer.models))) /\ UNCHANGED apiCalls
     ELSE CallSdk(randomKey)
  /\ apiAnswers' = Append(apiAnswers, answer)
  /\ UNCHANGED << apiKeysString, storedSettings, randomKey, notFacadeVars >>

\* proxyService.getModels settles
ProxySettles(answer) ==
  /\ apiPc = "proxy"
  /\ IF answer.kind = "throws"
     THEN Reject("Proxy service failed: " \o answer.message) /\ UNCHANGED apiCalls
     ELSE IF answer.kind = "models" /\ LegacyAvailableModels(answer.models) # <<>>
     THEN Resolve(SortByName(LegacyAvailableModels(answer.models))) /\ UNCHANGED apiCalls
     ELSE CallSdk(randomKey)
  /\ apiAnswers' = Append(apiAnswers, answer)
  /\ UNCHANGED << apiKeysString, storedSettings, randomKey, notFacadeVars >>

\* variant: the SDK's listing is returned whatever it holds
SdkSettles_EmptyResolves(answer) ==
  /\ apiPc = "sdk"
  /\ IF answer.kind = "throws" THEN Reject(answer.message)
     ELSE Resolve(SortByName(LegacyAvailableModels(answer.models)))
  /\ apiAnswers' = Append(apiAnswers, answer)
  /\ UNCHANGED << apiKeysString, storedSettings, apiCalls, randomKey, notFacadeVars >>

\* ai.models.list() and the iteration settle
SdkSettles(answer) ==
  /\ apiPc = "sdk"
  /\ IF answer.kind = "throws" THEN Reject(answer.message)
     ELSE IF LegacyAvailableModels(answer.models) # <<>>
     THEN Resolve(SortByName(LegacyAvailableModels(answer.models)))
     ELSE Reject(EmptyListMessage)
  /\ apiAnswers' = Append(apiAnswers, answer)
  /\ UNCHANGED << apiKeysString, storedSettings, apiCalls, randomKey, notFacadeVars >>

FacadeStart ==
  /\ apiPc = "idle"
  /\ apiCalls = <<>>
  /\ apiAnswers = <<>>
  /\ randomKey = ""
  /\ apiResult = <<>>
  /\ apiError = ""

\* no getAvailableModelsApi call is made
FacadeIdle ==
  /\ apiKeysString = <<>>
  /\ storedSettings = EmptySettings("absent")
  /\ FacadeStart

FacadeInit ==
  /\ apiKeysString \in ApiKeysStrings
  /\ storedSettings \in StoredSettingsValues
  /\ FacadeStart

(***************************************************************************)
(* Part 4: UnifiedModelService.getProviderConfigs                          *)
(***************************************************************************)
MaxDerivations == 2

\* a ProviderConfig as the derivation reads it; apiKey is <<>> when absent
ProviderEntry(id, name, enabled, baseUrl, apiKey) ==
  [id |-> id, name |-> name, enabled |-> enabled, baseUrl |-> baseUrl, apiKey |-> apiKey]

DEFAULT_PROVIDERS ==
  << ProviderEntry(GEMINI, "Google Gemini", TRUE,
                   "https://generativelanguage.googleapis.com/v1beta", <<>>),
     ProviderEntry(OPENAI, "OpenAI", FALSE, "https://api.openai.com/v1", <<>>),
     ProviderEntry(ANTHROPIC, "Anthropic Claude", FALSE,
                   "https://api.anthropic.com/v1", <<>>) >>

\* appSettings: providerConfigs is <<"absent">>, <<"notArray">> or
\* <<"array", list>>; apiKey is <<>> when absent or null
AppSettings(configs, apiKey, useCustomApiConfig, apiProxyUrl) ==
  [providerConfigs |-> configs, apiKey |-> apiKey,
   useCustomApiConfig |-> useCustomApiConfig, apiProxyUrl |-> apiProxyUrl]

UserEntries ==
  { ProviderEntry(GEMINI, "Google Gemini", FALSE,
                  "https://generativelanguage.googleapis.com/v1beta", <<>>),
    ProviderEntry(CustomId, "Local LLM", TRUE, "http://localhost:1234/v1", <<"sk">>) }

AppSettingsValues ==
  { AppSettings(cfgs, k, c, u) :
      cfgs \in { <<"absent">>, <<"notArray">> }
              \cup { <<"array", l>> : l \in SeqsUpTo(UserEntries, MaxConfigs) },
      k \in { <<>>, <<"">>, <<"k1">>, <<"k1\nk2">> },
      c \in BOOLEAN,
      u \in { "", ProxyUrl } }

\* appSettings?.providerConfigs && Array.isArray(appSettings.providerConfigs)
HasProviderConfigs(appSettings) == appSettings.providerConfigs[1] = "array"

\* appSettings?.apiKey is truthy
HasApiKey(appSettings) == appSettings.apiKey # <<>> /\ appSettings.apiKey[1] # ""

\* the statements of the map callback on the object they write to
Inject(config, appSettings) ==
  IF config.id = GEMINI /\ HasApiKey(appSettings)
  THEN [config EXCEPT
          !.apiKey = appSettings.apiKey,
          !.enabled = TRUE,
          !.baseUrl = IF appSettings.useCustomApiConfig /\ appSettings.apiProxyUrl # ""
                      THEN appSettings.apiProxyUrl ELSE @]
  ELSE config

\* UpdatedConfig without the spread: the callback writes to the object of
\* DEFAULT_PROVIDERS itself
UpdatedConfig_NoCopy(config, appSettings) ==
  [returned |-> Inject(config, appSettings), original |-> Inject(config, appSettings)]

\* the map callback: updatedConfig = { ...config } is a new object, the
\* writes go to it and the element of DEFAULT_PROVIDERS stays as it was
UpdatedConfig(config, appSettings) ==
  [returned |-> Inject(config, appSettings), original |-> config]

\* getProviderConfigs(appSettings)
GetProviderConfigs(appSettings) ==
  /\ gpcCalls < MaxDerivations
  /\ gpcPc' = "done"
  /\ gpcCalls' = gpcCalls + 1
  /\ gpcSettings' = appSettings
  /\ IF HasProviderConfigs(appSettings)
     THEN /\ gpcResult' = appSettings.providerConfigs[2]
          /\ defaultProviders' = defaultProviders
     ELSE /\ gpcResult' = [i \in 1..Len(defaultProviders) |->
                             UpdatedConfig(defaultProviders[i], appSettings).returned]
          /\ defaultProviders' = [i \in 1..Len(defaultProviders) |->
                                    UpdatedConfig(defaultProviders[i], appSettings).original]
  /\ UNCHANGED notDerivationVars

DerivationIdle ==
  /\ defaultProviders = DEFAULT_PROVIDERS
  /\ gpcPc = "idle"
  /\ gpcSettings = AppSettings(<<"absent">>, <<>>, FALSE, "")
  /\ gpcResult = <<>>
  /\ gpcCalls = 0

(***************************************************************************)
(* Part 5: the conversion of the chat history to a provider's messages     *)
(* (convertHistoryToOpenAI, convertHistoryToAnthropic,                     *)
(* convertHistoryToOpenAIFormat)                                           *)
(***************************************************************************)
MaxItems == 2       \* items of a history
MaxParts == 2       \* parts of an item

\* a Part: a text part {text}, or an inline-binary part {inlineData}
TextPart(t) == [kind |-> "text", text |-> t, mimeType |-> "", data |-> ""]
InlinePart(mimeType, data) ==
  [kind |-> "inlineData", text |-> "", mimeType |-> mimeType, data |-> data]

Parts == { TextPart("hi"), TextPart(""), InlinePart("image/png", "AAAA") }

HistoryItem(role, parts) == [role |-> role, parts |-> parts]

HistoryItems ==
  { HistoryItem(r, ps) : r \in {"user", "model"}, ps \in SeqsUpTo(Parts, MaxParts) }

Histories == SeqsUpTo(HistoryItems, MaxItems)

SystemInstructions == { "", " \n", "be brief" }

\* the entries pushed to contentParts
TextEntry(t) == [type |-> "text", text |-> t]
ImageUrlEntry(url) == [type |-> "image_url", image_url |-> [url |-> url]]
ImageEntry(mimeType, data) ==
  [type |-> "image", source |-> [type |-> "base64", media_type |-> mimeType, data |-> data]]

\* `data:${part.inlineData.mimeType};base64,${part.inlineData.data}`
DataUrl(part) == "data:" \o part.mimeType \o ";base64," \o part.data

\* the body of the loop over item.parts: what one part pushes
OpenAIContentPart(part) ==
  IF part.kind = "text" /\ part.text # "" THEN << TextEntry(part.text) >>
  ELSE IF part.kind = "inlineData" THEN << ImageUrlEntry(DataUrl(part)) >>
  ELSE <<>>

AnthropicContentPart(part) ==
  IF part.kind = "text" /\ part.text # "" THEN << TextEntry(part.text) >>
  ELSE IF part.kind = "inlineData" THEN << ImageEntry(part.mimeType, part.data) >>
  ELSE <<>>

ContentPart(p, part) ==
  IF p = ANTHROPIC THEN AnthropicContentPart(part) ELSE OpenAIContentPart(part)

RECURSIVE ContentParts(_, _)
ContentParts(p, parts) ==
  IF parts = <<>> THEN <<>>
  ELSE ContentPart(p, Head(parts)) \o ContentParts(p, Tail(parts))

\* a message's content: a bare string, or an array of entries
StringContent(t) == [kind |-> "string", text |-> t, entries |-> <<>>]
ArrayContent(es) == [kind |-> "array", text |-> "", entries |-> es]

\* contentParts.length === 1 && contentParts[0].type === 'text'
\*   ? contentParts[0].text : contentParts
Content(contentParts) ==
  IF Len(contentParts) = 1 /\ contentParts[1].type = "text"
  THEN StringContent(contentParts[1].text)
  ELSE ArrayContent(contentParts)

Message(role, content) == [role |-> role, content |-> content]

\* item.role === 'model' ? 'assistant' : 'user'
Role(item) == IF item.role = "model" THEN "assistant" ELSE "user"

\* the loop over the history: one message is pushed per item
RECURSIVE ConvertItems(_, _)
ConvertItems(p, items) ==
  IF items = <<>> THEN <<>>
  ELSE << Message(Role(Head(items)), Content(ContentParts(p, Head(items).parts))) >>
       \o ConvertItems(p, Tail(items))

\* the system message, pushed first when systemInstruction.trim() is not empty
SystemMessages(instruction) ==
  IF Trim(instruction) # "" THEN << Message("system", StringContent(instruction)) >>
  ELSE <<>>

ConvertHistoryToOpenAI(items, instruction) ==
  SystemMessages(instruction) \o ConvertItems(OPENAI, items)

ConvertHistoryToOpenAIFormat(items, instruction) ==
  SystemMessages(instruction) \o ConvertItems(CUSTOM, items)

ConvertHistoryToAnthropic(items) == ConvertItems(ANTHROPIC, items)

\* the adapter converts the history it was handed
ConvertHistory(p) ==
  /\ convPc = "idle"
  /\ convPc' = "done"
  /\ convProvider' = p
  /\ messages' = (IF p = ANTHROPIC THEN ConvertHistoryToAnthropic(history)
                  ELSE IF p = CUSTOM
                  THEN ConvertHistoryToOpenAIFormat(history, systemInstruction)
                  ELSE ConvertHistoryToOpenAI(history, systemInstruction))
  /\ UNCHANGED << history, systemInstruction, notConversionVars >>

ConversionStart ==
  /\ convPc = "idle"
  /\ convProvider = GEMINI
  /\ messages = <<>>

ConversionIdle ==
  /\ history = <<>>
  /\ systemInstruction = ""
  /\ ConversionStart

(***************************************************************************)
(* Part 6: the HTTP request of an adapter method, and sendMessageNonStream *)
(***************************************************************************)
\* the adapter methods that call fetch
Ops(p) ==
  IF p = ANTHROPIC THEN {"sendMessageStream", "sendMessageNonStream"}
  ELSE {"getAvailableModels", "sendMessageStream", "sendMessageNonStream"}

HeaderNames == {"Authorization", "x-api-key", "anthropic-version", "Content-Type", "X-Title"}

\* config.customHeaders: a value for some of the names (none: <<>>)
CustomHeaderSets == UNION { [S -> {"custom"}] : S \in SUBSET HeaderNames }

\* the properties written before the spread
DefaultHeaders(p, apiKey) ==
  IF p = ANTHROPIC
  THEN ("x-api-key" :> apiKey) @@ ("Content-Type" :> "application/json")
       @@ ("anthropic-version" :> "2023-06-01")
  ELSE ("Authorization" :> ("Bearer " \o apiKey)) @@ ("Content-Type" :> "application/json")

\* Headers with the spread written first: the defaults win
Headers_SpreadFirst(p, apiKey, customHeaders) == DefaultHeaders(p, apiKey) @@ customHeaders

\* headers: { <defaults>, ...config.customHeaders }: a later property
\* replaces an earlier one of the same name
Headers(p, apiKey, customHeaders) == customHeaders @@ DefaultHeaders(p, apiKey)

NsOnComplete(parts, usage) == [cb |-> "onComplete", parts |-> parts, usage |-> usage]
NsOnError(e) == [cb |-> "onError", error |-> e]

\* the method up to its first await: the key check (before the try block),
\* then fetch; what follows the fetch of a listing or a stream is Part 2's
\* and Part 1's
SendRequest ==
  /\ reqPc = "idle"
  /\ IF reqApiKey = ""
     THEN /\ reqPc' = "rejected"
          /\ reqHeaders' = reqHeaders
          /\ nsOutcome' = "noKey"
     ELSE /\ reqPc' = IF reqOp = "sendMessageNonStream" THEN "fetch" ELSE "issued"
          /\ reqHeaders' = Headers(reqProvider, reqApiKey, reqCustomHeaders)
          /\ nsOutcome' = nsOutcome
  /\ UNCHANGED << reqProvider, reqOp, reqApiKey, reqCustomHeaders, nsLog, nsResponse >>
  /\ UNCHANGED notRequestVars

\* the catch block of sendMessageNonStream: onError(error)
NsCatch(e, met) ==
  /\ nsLog' = Append(nsLog, NsOnError(e))
  /\ reqPc' = "done"
  /\ nsOutcome' = met
  /\ UNCHANGED << reqProvider, reqOp, reqApiKey, reqCustomHeaders, reqHeaders >>
  /\ UNCHANGED notRequestVars

\* an await other than response.json() rejects
NsRejects(e, met) == NsCatch(e, met) /\ nsResponse' = nsResponse

\* fetch rejects (network failure)
NsFetchRejects == reqPc = "fetch" /\ NsRejects("fetch failed", "fetchRejected")

\* the response is not ok: await response.text()
NsFetchNotOk ==
  /\ reqPc = "fetch"
  /\ reqPc' = "errorText"
  /\ nsOutcome' = "notOk"
  /\ UNCHANGED << reqProvider, reqOp, reqApiKey, reqCustomHeaders, reqHeaders, nsLog,
                  nsResponse >>
  /\ UNCHANGED notRequestVars

\* response.text() settles; either way an error is thrown into the catch
NsErrorTextSettles == reqPc = "errorText" /\ NsRejects("API error", "notOk")

\* the response is ok: await response.json()
NsFetchOk ==
  /\ reqPc = "fetch"
  /\ reqPc' = "json"
  /\ UNCHANGED << reqProvider, reqOp, reqApiKey, reqCustomHeaders, reqHeaders, nsLog,
                  nsOutcome, nsResponse >>
  /\ UNCHANGED notRequestVars

\* response.json() rejects: the body is not JSON
NsJsonRejects == reqPc = "json" /\ NsRejects("SyntaxError", "notJson")

\* the abort signal is triggered: the pending fetch / text / json rejects
NsAbort ==
  /\ reqPc \in {"fetch", "errorText", "json"}
  /\ NsRejects("AbortError", "aborted")

\* The body of a 2xx response.  An optional member is <<>> when missing and
\* <<value>> when present.  OpenAI / Custom: choices, choices[0].message,
\* message.content, usage.  Anthropic: content (the texts of its blocks),
\* usage.
ChatCompletion(choices, usage) == [choices |-> choices, usage |-> usage]
Choice(message) == [message |-> message]
ChoiceMessage(content) == [content |-> content]

ChatCompletions ==
  { ChatCompletion(c, u) :
      c \in { <<>>, << <<>> >> }
            \cup { << << Choice(m) >> >> :
                     m \in { <<>> }
                           \cup { << ChoiceMessage(t) >> : t \in { <<>>, <<"">>, <<"hi">> } } },
      u \in { <<>>, << WireUsage1 >> } }

AnthropicMessage(content, usage) == [content |-> content, usage |-> usage]

AnthropicMessages ==
  { AnthropicMessage(c, u) :
      c \in { <<>>, << <<>> >>, << <<"hi">> >>, << <<"">> >>, << <<"hi", "there">> >> },
      u \in { <<>>, << [input_tokens |-> 2, output_tokens |-> 3] >> } }

ResponseBodies(p) == IF p = ANTHROPIC THEN AnthropicMessages ELSE ChatCompletions

\* data.choices?.[0]?.message?.content, <<>> when undefined
ChoiceContent(data) ==
  IF data.choices = <<>> \/ data.choices[1] = <<>> THEN <<>>
  ELSE IF data.choices[1][1].message = <<>> THEN <<>>
  ELSE data.choices[1][1].message[1].content

\* NoContent testing only for a missing member: an empty string or an empty
\* array passes
NoContent_MissingOnly(p, data) ==
  IF p = ANTHROPIC THEN data.content = <<>> ELSE ChoiceContent(data) = <<>>

\* !choice?.message?.content; !data.content || data.content.length === 0
NoContent(p, data) ==
  IF p = ANTHROPIC THEN data.content = <<>> \/ data.content[1] = <<>>
  ELSE ChoiceContent(data) = <<>> \/ ChoiceContent(data)[1] = ""

\* [{ text: choice.message.content }]; data.content.map(block => ({ text: block.text }))
NsParts(p, data) ==
  IF p = ANTHROPIC THEN [i \in 1..Len(data.content[1]) |-> TextPart(data.content[1][i])]
  ELSE << TextPart(ChoiceContent(data)[1]) >>

\* usageMetadata: undefined (<<>>) without data.usage
NsUsage(p, data) ==
  IF data.usage = <<>> THEN <<>>
  ELSE IF p = ANTHROPIC
  THEN << Usage(data.usage[1].input_tokens, data.usage[1].output_tokens,
                data.usage[1].input_tokens + data.usage[1].output_tokens) >>
  ELSE << Usage(data.usage[1].prompt_tokens, data.usage[1].completion_tokens,
                data.usage[1].total_tokens) >>

\* response.json() settles with data
NsJsonSettles(data) ==
  /\ reqPc = "json"
  /\ nsResponse' = << data >>
  /\ IF NoContent(reqProvider, data)
     THEN NsCatch("No content in response", "noContent")
     ELSE /\ nsLog' = Append(nsLog, NsOnComplete(NsParts(reqProvider, data),
                                                 NsUsage(reqProvider, data)))
                       \o (IF onCompleteThrows THEN << NsOnError(ThrownByOnComplete) >> ELSE <<>>)
          /\ reqPc' = "done"
          /\ nsOutcome' = "completed"
          /\ UNCHANGED << reqProvider, reqOp, reqApiKey, reqCustomHeaders, reqHeaders >>
          /\ UNCHANGED notRequestVars

RequestStart ==
  /\ reqPc = "idle"
  /\ reqHeaders = <<>>
  /\ nsLog = <<>>
  /\ nsOutcome = "pending"
  /\ nsResponse = <<>>

RequestIdle ==
  /\ reqProvider = OPENAI
  /\ reqOp = "getAvailableModels"
  /\ reqApiKey = ""
  /\ reqCustomHeaders = <<>>
  /\ RequestStart

(***************************************************************************)
(* Part 7: the settings actions of ProviderConfigSection.  What a handler  *)
(* hands to onProviderConfigsChange is the providerConfigs prop of the     *)
(* next render.                                                            *)
(***************************************************************************)
MaxCustom == 2      \* custom providers in the list
MaxClock == 1       \* readings of the clock after the first

\* the updates the handlers of the form pass: the enabled toggle, a name
Updates(config) == { [enabled |-> ~config.enabled], [name |-> "Renamed"] }

\* { ...config, ...updates }
Spread(config, updates) ==
  [f \in DOMAIN config |-> IF f \in DOMAIN updates THEN updates[f] ELSE config[f]]

\* providerConfigs.map(config => config.id === providerId ? {...} : config)
Updated(configs, providerId, updates) ==
  [i \in 1..Len(configs) |->
     IF configs[i].id = providerId THEN Spread(configs[i], updates) ELSE configs[i]]

UpdateProvider(providerId, updates) ==
  /\ providerConfigs' = Updated(providerConfigs, providerId, updates)
  /\ lastOp' = "updateProvider"
  /\ lastId' = providerId
  /\ UNCHANGED << now, notSettingsVars >>

\* newProvider, with id `custom-${Date.now()}`
NewProvider(t) ==
  ProviderEntry("custom-" \o ToString(t), "Custom Provider", FALSE,
                "https://api.example.com/v1", <<>>)

AddCustomProvider ==
  /\ Len(providerConfigs) < Len(DEFAULT_PROVIDERS) + MaxCustom
  /\ providerConfigs' = Append(providerConfigs, NewProvider(now))
  /\ lastOp' = "addCustomProvider"
  /\ lastId' = ""
  /\ UNCHANGED << now, notSettingsVars >>

\* Removed without the test of the prefix
Removed_AnyId(configs, providerId) ==
  SelectSeq(configs, LAMBDA config : config.id # providerId)

\* if (!providerId.startsWith('custom-')) return;
\* providerConfigs.filter(config => config.id !== providerId)
Removed(configs, providerId) ==
  IF ~StartsWith(providerId, "custom-") THEN configs
  ELSE SelectSeq(configs, LAMBDA config : config.id # providerId)

RemoveProvider(providerId) ==
  /\ providerConfigs' = Removed(providerConfigs, providerId)
  /\ lastOp' = "removeProvider"
  /\ lastId' = providerId
  /\ UNCHANGED << now, notSettingsVars >>

\* [...DEFAULT_PROVIDERS]
ResetToDefaults ==
  /\ providerConfigs' = defaultProviders
  /\ lastOp' = "resetToDefaults"
  /\ lastId' = ""
  /\ UNCHANGED << now, notSettingsVars >>

\* the clock advances
Tick ==
  /\ now < MaxClock
  /\ now' = now + 1
  /\ UNCHANGED << providerConfigs, lastOp, lastId, notSettingsVars >>

SettingsIdle ==
  /\ providerConfigs = DEFAULT_PROVIDERS
  /\ now = 0
  /\ lastOp = ""
  /\ lastId = ""

(***************************************************************************)
(* Part 8.  Two sendMessageStream calls in flight at once.  The adapters   *)
(* are singletons without fields that a call writes; decoder, buffer and   *)
(* usageMetadata are locals of the call, the callbacks and the response    *)
(* body are the call's own.  The event loop runs one continuation of one   *)
(* call at a time, in any order.                                           *)
(***************************************************************************)
MaxSendFrames == 2

CallIds == {1, 2}

\* the adapters the two calls are made on (the Custom adapter's read loop is
\* the OpenAI adapter's)
SendProviders == {OPENAI, ANTHROPIC}

\* the lines the server of call i sends: the two calls are given different
\* texts and different usage figures
SendFrameKinds(i, p) ==
  IF p = ANTHROPIC THEN (IF i = 1 THEN {"Ta", "S1"} ELSE {"Tb", "D3"})
  ELSE (IF i = 1 THEN {"Ta", "U1"} ELSE {"Tb", "TbU2"})

\* the state of one call before it is made
Send(p, fs) ==
  [ provider |-> p, frames |-> fs, wire |-> Encode(p, fs, TRUE), pos |-> 0,
    pc |-> "idle", buffer |-> <<>>, usageMetadata |-> <<>>, log |-> <<>> ]

SendValues(i) ==
  UNION { { Send(p, fs) : fs \in SeqsUpTo(SendFrameKinds(i, p), MaxSendFrames) } : p \in SendProviders }

\* variant: buffer is a field of the adapter, so that two calls on the same
\* adapter read the same one
SendBuffer_Shared(i) ==
  IF sends[1].provider = sends[i].provider THEN sends[1].buffer ELSE sends[i].buffer

\* let buffer = '': the call's own
SendBuffer(i) == sends[i].buffer

\* sendMessageStream is called: the request is issued
SendCall(i) ==
  /\ sends[i].pc = "idle"
  /\ sends' = [sends EXCEPT ![i].pc = "fetch"]
  /\ UNCHANGED notSendsVars

\* the call's fetch rejects: catch, onError
SendFetchRejects(i) ==
  /\ sends[i].pc = "fetch"
  /\ sends' = [sends EXCEPT ![i].pc = "done",
                            ![i].log = Append(@, OnError("fetch failed"))]
  /\ UNCHANGED notSendsVars

\* the call's fetch resolves with a body: getReader, new TextDecoder,
\* buffer = '', usageMetadata = null
SendFetchOk(i) ==
  /\ sends[i].pc = "fetch"
  /\ sends' = [sends EXCEPT ![i].pc = "read",
                            ![i].buffer = <<>>,
                            ![i].usageMetadata = <<>>]
  /\ UNCHANGED notSendsVars

\* the call's reader.read() delivers the next k atoms of its body
SendReadChunk(i, k) ==
  /\ sends[i].pc = "read"
  /\ sends[i].pos + k <= Len(sends[i].wire)
  /\ LET r == ProcessChunk(sends[i].provider, SendBuffer(i), sends[i].usageMetadata,
                           SubSeq(sends[i].wire, sends[i].pos + 1, sends[i].pos + k))
     IN  sends' = [sends EXCEPT ![i].buffer = r.buffer,
                                ![i].usageMetadata = r.usage,
                                ![i].log = @ \o OnParts(r.parts),
                                ![i].pos = @ + k]
  /\ UNCHANGED notSendsVars

\* the call's reader.read() reports done: onComplete(usageMetadata)
SendReadDone(i) ==
  /\ sends[i].pc = "read"
  /\ sends[i].pos = Len(sends[i].wire)
  /\ sends' = [sends EXCEPT ![i].pc = "done",
                            ![i].log = Append(@, OnComplete(sends[i].usageMetadata))]
  /\ UNCHANGED notSendsVars

\* the call's reader.read() rejects: catch, onError
SendReadFails(i) ==
  /\ sends[i].pc = "read"
  /\ sends' = [sends EXCEPT ![i].pc = "done",
                            ![i].log = Append(@, OnError("read failed"))]
  /\ UNCHANGED notSendsVars

SendsIdle == sends = [i \in CallIds |-> Send(GEMINI, <<>>)]

\* no lock released yet; the caller's onComplete returns normally
ExitIdle ==
  /\ releases = <<>>
  /\ onCompleteThrows = FALSE

(***************************************************************************)
(* Part 9: the generation parameters in the request body of a send.        *)
(* Numbers are counted in tenths: 7 is 0.7.  An absent (undefined)         *)
(* parameter is <<>>.                                                      *)
(***************************************************************************)
DefaultTemperature == 7
DefaultTopP == 10

\* generationConfig: { temperature?: number; topP?: number }
GenerationConfig(t, p) == [temperature |-> t, topP |-> p]

GenerationConfigs ==
  { GenerationConfig(t, p) : t \in {<<>>, <<0>>, <<3>>, <<7>>, <<10>>},
                             p \in {<<>>, <<0>>, <<5>>, <<10>>} }

\* x || d on an optional number: undefined and 0 are falsy
OrDefault(x, d) == IF x = <<>> \/ x[1] = 0 THEN d ELSE x[1]

\* const requestBody = { ..., stream, temperature: generationConfig.temperature || 0.7,
\* top_p: generationConfig.topP || 1.0 }; the Anthropic body has max_tokens
RequestBody(p, stream, gc) ==
  [ stream      |-> stream,
    max_tokens  |-> IF p = ANTHROPIC THEN <<4096>> ELSE <<>>,
    temperature |-> OrDefault(gc.temperature, DefaultTemperature),
    top_p       |-> OrDefault(gc.topP, DefaultTopP) ]

\* the send builds its body (before fetch)
BuildRequestBody ==
  /\ requestBody = <<>>
  /\ requestBody' = << RequestBody(genProvider, genStream, generationConfig) >>
  /\ UNCHANGED << genProvider, genStream, generationConfig >>
  /\ UNCHANGED notBodyVars

BodyIdle ==
  /\ genProvider = OPENAI
  /\ genStream = TRUE
  /\ generationConfig = GenerationConfig(<<>>, <<>>)
  /\ requestBody = <<>>

(***************************************************************************)
(* Part 10: CustomProvider.getAvailableModels against the /models endpoint *)
(* of a custom provider.                                                   *)
(***************************************************************************)
MaxListed == 2      \* entries in a listing

CustomListings == SeqsUpTo(CustomRawEntries, MaxListed)

\* the JSON document of a 2xx answer: a bare array, or an object whose
\* fields data and models are arrays or absent (<<>> absent, << list >> set)
ArrayBody(list) == [isArray |-> TRUE, items |-> list, data |-> <<>>, models |-> <<>>]
ObjectBody(data, models) == [isArray |-> FALSE, items |-> <<>>, data |-> data, models |-> models]

CustomBodies ==
  { ArrayBody(l) : l \in CustomListings }
  \cup { ObjectBody(d, m) : d, m \in { <<>> } \cup { << l >> : l \in CustomListings } }

\* variant: only the OpenAI shape {data: [...]} is read
ResponseModels_DataOnly(data) ==
  IF data.data # <<>> THEN data.data[1] ELSE <<>>

\* if (data.data && Array.isArray(data.data)) ... else if (Array.isArray(data))
\* ... else if (data.models && Array.isArray(data.models)) ...; [] otherwise
ResponseModels(data) ==
  IF data.data # <<>> THEN data.data[1]
  ELSE IF data.isArray THEN data.items
  ELSE IF data.models # <<>> THEN data.models[1]
  ELSE <<>>

\* models.map(model => ({ id, name, providerId: config.id, providerName: config.name, ... }))
RECURSIVE CustomModelOptions(_, _)
CustomModelOptions(models, config) ==
  IF models = <<>> THEN <<>>
  ELSE << Model(CustomEntryId(Head(models)),
                CustomFormatModelName(CustomEntryLabel(Head(models))),
                config.id, config.name) >>
       \o CustomModelOptions(Tail(models), config)

\* the call up to its first await: the key check, before the try block
ClCall ==
  /\ clPc = "idle"
  /\ clPc' = IF clConfig.apiKey = "" THEN "rejected" ELSE "fetch"
  /\ UNCHANGED << clConfig, clAnswer, clResult >>
  /\ UNCHANGED notCustomListVars

\* what the endpoint answered: what the request met and, for a 2xx answer
\* with a JSON body, the document
EndpointAnswer(met, body) == [met |-> met, body |-> body]

\* the call returns the list
ClReturn(met, body, models) ==
  /\ clPc' = "resolved"
  /\ clAnswer' = << EndpointAnswer(met, body) >>
  /\ clResult' = models
  /\ UNCHANGED clConfig
  /\ UNCHANGED notCustomListVars

\* fetch rejects: the catch block returns the default model
ClFetchRejects ==
  /\ clPc = "fetch"
  /\ ClReturn("fetchRejected", ObjectBody(<<>>, <<>>), << CustomDefaultModel(clConfig) >>)

\* the response is not ok: the default model
ClFetchNotOk ==
  /\ clPc = "fetch"
  /\ ClReturn("notOk", ObjectBody(<<>>, <<>>), << CustomDefaultModel(clConfig) >>)

\* the response is ok: await response.json()
ClFetchOk ==
  /\ clPc = "fetch"
  /\ clPc' = "json"
  /\ UNCHANGED << clConfig, clAnswer, clResult >>
  /\ UNCHANGED notCustomListVars

\* response.json() rejects (the body is not JSON): the catch block
ClJsonRejects ==
  /\ clPc = "json"
  /\ ClReturn("notJson", ObjectBody(<<>>, <<>>), << CustomDefaultModel(clConfig) >>)

\* response.json() settles: the models are mapped and sorted by name
ClJsonSettles(data) ==
  /\ clPc = "json"
  /\ ClReturn("json", data, SortByName(CustomModelOptions(ResponseModels(data), clConfig)))

CustomListIdle ==
  /\ clConfig = Config(CustomId, "Local LLM", TRUE, "")
  /\ clPc = "idle"
  /\ clAnswer = <<>>
  /\ clResult = <<>>

(***************************************************************************)
(* Part 11: useChatHistory.  A step is an event (a handler, the debounce   *)
(* timer firing) together with the render that follows it and that         *)
(* render's session-saving effect.  Sessions and messages are reduced to   *)
(* what the hook reads: id, timestamp, the ids of the messages.            *)
(***************************************************************************)
MaxUniqueIds == 5     \* sessions and messages created
MaxDateNow == 1       \* readings of the clock after the first

SavedChatSession(id, timestamp, msgs) == [id |-> id, timestamp |-> timestamp, messages |-> msgs]

\* sessions.find(s => s.id === id): <<>> when there is none
FindSession(sessions, id) ==
  LET hits == { i \in 1..Len(sessions) : sessions[i].id = id }
  IN  IF hits = {} THEN <<>> ELSE << sessions[Min(hits)] >>

\* prev.filter(s => s.id !== sessionId)
WithoutSession(sessions, id) == SelectSeq(sessions, LAMBDA s : s.id # id)

\* updatedSessions.sort((a, b) => b.timestamp - a.timestamp); the sort is stable
RECURSIVE SortByTimestamp(_)
SortByTimestamp(s) ==
  IF s = <<>> THEN <<>>
  ELSE LET t == SortByTimestamp(Front(s))
           x == Last(s)
           k == Cardinality({ i \in 1..Len(t) : t[i].timestamp >= x.timestamp })
       IN  SubSeq(t, 1, k) \o <<x>> \o SubSeq(t, k + 1, Len(t))

\* the id of the last message, 0 (null) for no message
LastMessageId(msgs) == IF msgs = <<>> THEN 0 ELSE msgs[Len(msgs)]

\* variant: every save takes the current time
TimestampToUse_AlwaysNow(existing, msgs) == dateNow

\* timestampToUse: the existing session's when neither the number of
\* messages nor the last message's id has changed, Date.now() otherwise
TimestampToUse(existing, msgs) ==
  IF /\ existing # <<>>
     /\ Len(existing[1].messages) = Len(msgs)
     /\ LastMessageId(existing[1].messages) = LastMessageId(msgs)
  THEN existing[1].timestamp
  ELSE dateNow

\* the updater handed to setSavedSessions by the timer callback
UpdatedSessions(prev, session) ==
  LET hits == { i \in 1..Len(prev) : prev[i].id = session.id }
  IN  SortByTimestamp(IF hits # {} THEN [prev EXCEPT ![Min(hits)] = session]
                      ELSE << session >> \o prev)

\* what a saveCurrentChatSession call closes over: its arguments, and the
\* savedSessions and activeSessionId of the render that created the callback
Closure(msgs, current, sessions, active) ==
  [currentMessages |-> msgs, currentActiveSessionId |-> current,
   savedSessions |-> sessions, activeSessionId |-> active]

\* the session-saving effect of the render with these values: it calls
\* saveCurrentChatSession, which replaces the pending timer, or leaves the
\* timer alone
EffectTimer(msgs, active, sessions, timer) ==
  IF Len(msgs) > 0 \/ (active # 0 /\ FindSession(sessions, active) # <<>>)
  THEN << Closure(msgs, active, sessions, active) >>
  ELSE timer

\* the effect's other branch: a stale stored active id is removed
EffectStoredActive(msgs, active, sessions, stored) ==
  IF Len(msgs) > 0 \/ (active # 0 /\ FindSession(sessions, active) # <<>>) THEN stored
  ELSE IF active = 0 THEN 0 ELSE stored

\* generateUniqueId()
GenerateUniqueId == uniqueIds + 1

\* the messages change (a prompt is sent, a reply arrives); then the effect
SetMessages ==
  /\ uniqueIds < MaxUniqueIds
  /\ chatMessages' = Append(chatMessages, GenerateUniqueId)
  /\ uniqueIds' = uniqueIds + 1
  /\ saveTimer' = EffectTimer(chatMessages', activeSessionId, savedSessions, saveTimer)
  /\ histOp' = "setMessages"
  /\ UNCHANGED << savedSessions, activeSessionId, storedSessions, storedActiveId,
                  dateNow, deletedIds >>
  /\ UNCHANGED notHistoryVars

\* the debounce timer fires: the callback of saveCurrentChatSession; then
\* the effect of the render it causes
TimerFires ==
  /\ saveTimer # <<>>
  /\ LET c == saveTimer[1] IN
     IF /\ c.currentMessages = <<>>
        /\ (c.currentActiveSessionId = 0
            \/ FindSession(c.savedSessions, c.currentActiveSessionId) = <<>>)
     THEN \* nothing to save
          /\ activeSessionId' = (IF c.activeSessionId # 0 /\ storedActiveId = 0
                                 THEN 0 ELSE activeSessionId)
          /\ saveTimer' = EffectTimer(chatMessages, activeSessionId', savedSessions, <<>>)
          /\ storedActiveId' = EffectStoredActive(chatMessages, activeSessionId',
                                                  savedSessions, storedActiveId)
          /\ histOp' = "nothingToSave"
          /\ UNCHANGED << savedSessions, storedSessions, uniqueIds >>
     ELSE LET isNew   == c.currentActiveSessionId = 0
              id      == IF isNew THEN GenerateUniqueId ELSE c.currentActiveSessionId
              session == SavedChatSession(id,
                           TimestampToUse(FindSession(c.savedSessions, id), c.currentMessages),
                           c.currentMessages)
          IN  /\ ~isNew \/ uniqueIds < MaxUniqueIds
              /\ uniqueIds' = IF isNew THEN uniqueIds + 1 ELSE uniqueIds
              /\ savedSessions' = UpdatedSessions(savedSessions, session)
              /\ storedSessions' = UpdatedSessions(savedSessions, session)
              /\ activeSessionId' = IF isNew THEN id ELSE activeSessionId
              /\ saveTimer' = EffectTimer(chatMessages, activeSessionId', savedSessions', <<>>)
              /\ storedActiveId' = EffectStoredActive(chatMessages, activeSessionId', savedSessions',
                                                      IF isNew THEN id ELSE storedActiveId)
              /\ histOp' = "save"
  /\ UNCHANGED << chatMessages, dateNow, deletedIds >>
  /\ UNCHANGED notHistoryVars

\* startNewChat(saveCurrent): what it leaves in messages, active id, stored
\* active id and timer, before the effect
NewChat(saveCurrent) ==
  [ messages |-> <<>>, active |-> 0, storedActive |-> 0,
    timer |-> IF saveCurrent /\ activeSessionId # 0 /\ Len(chatMessages) > 0
              THEN << Closure(chatMessages, activeSessionId, savedSessions, activeSessionId) >>
              ELSE saveTimer ]

\* loadChatSession(sessionId) with the sessions of the current render
LoadedChat(sessionId) ==
  LET found == FindSession(savedSessions, sessionId)
  IN  IF found # <<>>
      THEN [ messages |-> found[1].messages, active |-> sessionId,
             storedActive |-> sessionId, timer |-> saveTimer ]
      ELSE NewChat(FALSE)

\* the handler has run and left chat and sessions: the render and its effect
Rendered(chat, sessions, stored, op) ==
  /\ chatMessages' = chat.messages
  /\ activeSessionId' = chat.active
  /\ savedSessions' = sessions
  /\ storedSessions' = stored
  /\ saveTimer' = EffectTimer(chat.messages, chat.active, sessions, chat.timer)
  /\ storedActiveId' = EffectStoredActive(chat.messages, chat.active, sessions, chat.storedActive)
  /\ histOp' = op
  /\ UNCHANGED << dateNow, uniqueIds >>
  /\ UNCHANGED notHistoryVars

\* the user starts a new chat
StartNewChat ==
  /\ Rendered(NewChat(TRUE), savedSessions, storedSessions, "startNewChat")
  /\ UNCHANGED deletedIds

\* the user picks a session of the history
LoadChatSession(sessionId) ==
  /\ FindSession(savedSessions, sessionId) # <<>>
  /\ Rendered(LoadedChat(sessionId), savedSessions, storedSessions, "loadChatSession")
  /\ UNCHANGED deletedIds

\* handleDeleteChatHistorySession(sessionId), after its setSavedSessions: the
\* chat stays, or the first other session is loaded, or a new chat is started
AfterDelete(sessionId) ==
  IF activeSessionId # sessionId
  THEN [ messages |-> chatMessages, active |-> activeSessionId,
         storedActive |-> storedActiveId, timer |-> saveTimer ]
  ELSE IF WithoutSession(savedSessions, sessionId) # <<>>
  THEN LoadedChat(WithoutSession(savedSessions, sessionId)[1].id)
  ELSE NewChat(FALSE)

\* the user deletes a session of the history
HandleDeleteChatHistorySession(sessionId) ==
  /\ FindSession(savedSessions, sessionId) # <<>>
  /\ Rendered(AfterDelete(sessionId), WithoutSession(savedSessions, sessionId),
              WithoutSession(savedSessions, sessionId), "delete")
  /\ deletedIds' = deletedIds \cup {sessionId}

\* clearAllHistory: the timer is cleared, the stored list removed
ClearAllHistory ==
  /\ Rendered([NewChat(FALSE) EXCEPT !.timer = <<>>], <<>>, <<>>, "clearAllHistory")
  /\ UNCHANGED deletedIds

\* time passes
ClockAdvances ==
  /\ dateNow < MaxDateNow
  /\ dateNow' = dateNow + 1
  /\ histOp' = "clock"
  /\ UNCHANGED << savedSessions, activeSessionId, chatMessages, storedSessions,
                  storedActiveId, saveTimer, uniqueIds, deletedIds >>
  /\ UNCHANGED notHistoryVars

\* the hook after mounting with an empty history: startNewChat(false)
HistoryIdle ==
  /\ savedSessions = <<>>
  /\ activeSessionId = 0
  /\ chatMessages = <<>>
  /\ storedSessions = <<>>
  /\ storedActiveId = 0
  /\ saveTimer = <<>>
  /\ dateNow = 0
  /\ uniqueIds = 0
  /\ deletedIds = {}
  /\ histOp = ""

(***************************************************************************)
(* Specifications                                                          *)
(***************************************************************************)
\* one sendMessageStream call
Init == StreamInit /\ RegistryInit /\ FacadeIdle /\ DerivationIdle /\ ConversionIdle /\ RequestIdle /\ SettingsIdle /\ SendsIdle /\ ExitIdle /\ BodyIdle /\ CustomListIdle /\ HistoryIdle

Next == StreamNext

Spec == Init /\ [][Next]_vars

\* the registry's model listing
ListingInit == StreamIdle /\ RegistryInit /\ FacadeIdle /\ DerivationIdle /\ ConversionIdle /\ RequestIdle /\ SettingsIdle /\ SendsIdle /\ ExitIdle /\ BodyIdle /\ CustomListIdle /\ HistoryIdle

ListingNext ==
  \/ gamPc = "idle" /\ \E configs \in ConfigLists : GetAllAvailableModels(configs)
  \/ \E resp \in ListingResponses : ListingSettles(resp)
  \/ \E config \in ProviderConfigs : RegisterCustomProvider(config)

ListingSpec == ListingInit /\ [][ListingNext]_vars

\* the registry's routing of a model id
RoutingInit == StreamIdle /\ RegistryInit /\ FacadeIdle /\ DerivationIdle /\ ConversionIdle /\ RequestIdle /\ SettingsIdle /\ SendsIdle /\ ExitIdle /\ BodyIdle /\ CustomListIdle /\ HistoryIdle

RoutingNext ==
  \/ \E config \in ProviderConfigs : RegisterCustomProvider(config)
  \/ gpfPc = "idle" /\ \E modelId \in ModelIds, configs \in ConfigLists :
                          GetProviderForModel(modelId, configs)

RoutingSpec == RoutingInit /\ [][RoutingNext]_vars

\* a further getAllAvailableModels call, entered while the observed one is
\* awaiting a listing or after it resolved: its first loop runs on the shared
\* registry; what it collects is its own and goes to its own caller
AnotherGetAllAvailableModels(configs) ==
  /\ gamPc # "idle"
  /\ providers' = RegisterCustomProviders(providers, configs)
  /\ UNCHANGED << listingVars, routingVars, notRegistryVars >>

\* the registry under all three operations, interleaved; the inputs are the
\* enabled configs with a key, and one model id with and one without pattern
RegistryConfigs ==
  { c \in ProviderConfigs : c.enabled /\ c.apiKey = "key" /\ c.id # OPENAI }

RegistryConfigLists == SeqsUpTo(RegistryConfigs, MaxConfigs)

\* the routing call reads the registry and never writes it: it is given the
\* lists of at most one config
RegistryRoutedLists == { <<>> } \cup { << c >> : c \in RegistryConfigs }

RegistryModelIds == {"gemini-2.5-flash", "llama-3"}

RegistrySpecInit == StreamIdle /\ RegistryInit /\ FacadeIdle /\ DerivationIdle /\ ConversionIdle /\ RequestIdle /\ SettingsIdle /\ SendsIdle /\ ExitIdle /\ BodyIdle /\ CustomListIdle /\ HistoryIdle

RegistryNext ==
  \/ gamPc = "idle" /\ \E configs \in RegistryConfigLists : GetAllAvailableModels(configs)
  \/ \E resp \in ListingResponses : ListingSettles(resp)
  \/ gamPc # "idle" /\ \E configs \in RegistryConfigLists :
                         AnotherGetAllAvailableModels(configs)
  \/ \E config \in RegistryConfigs : RegisterCustomProvider(config)
  \/ gpfPc = "idle" /\ \E modelId \in RegistryModelIds, configs \in RegistryRoutedLists :
                          GetProviderForModel(modelId, configs)

RegistrySpec == RegistrySpecInit /\ [][RegistryNext]_vars

\* one getAvailableModelsApi call
FacadeSpecInit == StreamIdle /\ RegistryInit /\ FacadeInit /\ DerivationIdle /\ ConversionIdle /\ RequestIdle /\ SettingsIdle /\ SendsIdle /\ ExitIdle /\ BodyIdle /\ CustomListIdle /\ HistoryIdle

FacadeNext ==
  \/ \E n \in 0..(RandomSteps - 1) : GetAvailableModelsApi(n)
  \/ \E answer \in UnifiedAnswers, n \in 0..(RandomSteps - 1) : UnifiedSettles(answer, n)
  \/ \E answer \in ProxyAnswers : ProxySettles(answer)
  \/ \E answer \in SdkAnswers : SdkSettles(answer)

FacadeSpec == FacadeSpecInit /\ [][FacadeNext]_vars

\* derivations of the provider configs, one after the other
DerivationInit == StreamIdle /\ RegistryInit /\ FacadeIdle /\ DerivationIdle /\ ConversionIdle /\ RequestIdle /\ SettingsIdle /\ SendsIdle /\ ExitIdle /\ BodyIdle /\ CustomListIdle /\ HistoryIdle

DerivationNext == \E appSettings \in AppSettingsValues : GetProviderConfigs(appSettings)

DerivationSpec == DerivationInit /\ [][DerivationNext]_vars

\* one conversion of a history
ConversionInit ==
  /\ StreamIdle /\ RegistryInit /\ FacadeIdle /\ DerivationIdle /\ RequestIdle /\ SettingsIdle /\ SendsIdle /\ ExitIdle /\ BodyIdle /\ CustomListIdle /\ HistoryIdle
  /\ history \in Histories
  /\ systemInstruction \in SystemInstructions
  /\ ConversionStart

ConversionNext == \E p \in SSEProviders : ConvertHistory(p)

ConversionSpec == ConversionInit /\ [][ConversionNext]_vars

\* one call of an adapter method that issues a request
RequestInit ==
  /\ StreamIdle /\ RegistryInit /\ FacadeIdle /\ DerivationIdle /\ ConversionIdle /\ SettingsIdle /\ SendsIdle /\ ExitIdle /\ BodyIdle /\ CustomListIdle /\ HistoryIdle
  /\ reqProvider \in SSEProviders
  /\ reqOp \in Ops(reqProvider)
  /\ reqApiKey \in {"", "sk-1"}
  /\ reqCustomHeaders \in CustomHeaderSets
  /\ RequestStart

RequestNext ==
  \/ SendRequest
  \/ NsFetchRejects
  \/ NsFetchNotOk
  \/ NsErrorTextSettles
  \/ NsFetchOk
  \/ NsJsonRejects
  \/ NsAbort
  \/ reqPc = "json" /\ \E data \in ResponseBodies(reqProvider) : NsJsonSettles(data)

RequestSpec == RequestInit /\ [][RequestNext]_vars

\* the settings actions, in any order
SettingsInit ==
  /\ StreamIdle /\ RegistryInit /\ FacadeIdle /\ DerivationIdle /\ ConversionIdle /\ RequestIdle /\ SendsIdle /\ ExitIdle /\ BodyIdle /\ CustomListIdle /\ HistoryIdle
  /\ SettingsIdle

\* the ids the handlers are given: those of the list and the reserved ones
KnownIds == { providerConfigs[i].id : i \in 1..Len(providerConfigs) } \cup {GEMINI, CUSTOM}

SettingsNext ==
  \/ \E i \in 1..Len(providerConfigs) : \E updates \in Updates(providerConfigs[i]) :
       UpdateProvider(providerConfigs[i].id, updates)
  \/ AddCustomProvider
  \/ \E providerId \in KnownIds : RemoveProvider(providerId)
  \/ ResetToDefaults
  \/ Tick

SettingsSpec == SettingsInit /\ [][SettingsNext]_vars

\* two calls in flight at once
SendsInit ==
  /\ StreamIdle /\ RegistryInit /\ FacadeIdle /\ DerivationIdle /\ ConversionIdle /\ RequestIdle /\ SettingsIdle /\ ExitIdle /\ BodyIdle /\ CustomListIdle /\ HistoryIdle
  /\ sends \in { [i \in CallIds |-> IF i = 1 THEN a ELSE b] : a \in SendValues(1), b \in SendValues(2) }

SendsNext ==
  \E i \in CallIds :
    \/ SendCall(i)
    \/ SendFetchRejects(i)
    \/ SendFetchOk(i)
    \/ \E k \in 1..(Len(sends[i].wire) - sends[i].pos) : SendReadChunk(i, k)
    \/ SendReadDone(i)
    \/ SendReadFails(i)

SendsSpec == SendsInit /\ [][SendsNext]_vars

\* a streamed or a non-streamed send, the caller's onComplete throwing or not
ThrowInit ==
  /\ RegistryInit /\ FacadeIdle /\ DerivationIdle /\ ConversionIdle /\ SettingsIdle /\ SendsIdle /\ BodyIdle /\ CustomListIdle /\ HistoryIdle
  /\ releases = <<>>
  /\ onCompleteThrows \in BOOLEAN
  /\ \/ StreamInit /\ RequestIdle
     \/ /\ StreamIdle
        /\ reqProvider \in SSEProviders
        /\ reqOp = "sendMessageNonStream"
        /\ reqApiKey \in {"", "sk-1"}
        /\ reqCustomHeaders \in CustomHeaderSets
        /\ RequestStart

ThrowNext ==
  \/ reqOp # "sendMessageNonStream" /\ StreamNext
  \/ reqOp = "sendMessageNonStream" /\ RequestNext

ThrowSpec == ThrowInit /\ [][ThrowNext]_vars

\* the request body of a send
BodyInit ==
  /\ StreamIdle /\ RegistryInit /\ FacadeIdle /\ DerivationIdle /\ ConversionIdle /\ RequestIdle /\ SettingsIdle /\ SendsIdle /\ ExitIdle /\ CustomListIdle /\ HistoryIdle
  /\ genProvider \in SSEProviders
  /\ genStream \in BOOLEAN
  /\ generationConfig \in GenerationConfigs
  /\ requestBody = <<>>

BodyNext == BuildRequestBody

BodySpec == BodyInit /\ [][BodyNext]_vars

\* one listing call on a custom adapter
CustomListInit ==
  /\ StreamIdle /\ RegistryInit /\ FacadeIdle /\ DerivationIdle /\ ConversionIdle /\ RequestIdle /\ SettingsIdle /\ SendsIdle /\ ExitIdle /\ BodyIdle /\ HistoryIdle
  /\ clConfig \in { Config(CustomId, n, e, k) : n \in {"Local LLM", "OpenAI"}, e \in BOOLEAN, k \in {"", "key"} }
  /\ clPc = "idle"
  /\ clAnswer = <<>>
  /\ clResult = <<>>

CustomListNext ==
  \/ ClCall
  \/ ClFetchRejects
  \/ ClFetchNotOk
  \/ ClFetchOk
  \/ ClJsonRejects
  \/ clPc = "json" /\ \E data \in CustomBodies : ClJsonSettles(data)

CustomListSpec == CustomListInit /\ [][CustomListNext]_vars

\* a listing call, then the routing of one of the models it returned, with
\* the same config list
RoundTripInit == StreamIdle /\ RegistryInit /\ FacadeIdle /\ DerivationIdle /\ ConversionIdle /\ RequestIdle /\ SettingsIdle /\ SendsIdle /\ ExitIdle /\ BodyIdle /\ CustomListIdle /\ HistoryIdle

RoundTripNext ==
  \/ gamPc = "idle" /\ \E configs \in ConfigLists : GetAllAvailableModels(configs)
  \/ \E resp \in ListingResponses : ListingSettles(resp)
  \/ gamPc = "done" /\ gpfPc = "idle" /\ \E k \in 1..Len(gamResult) :
                                           GetProviderForModel(gamResult[k].id, gamConfigs)

RoundTripSpec == RoundTripInit /\ [][RoundTripNext]_vars

\* the chat history hook, mounted with an empty history
HistoryInit ==
  /\ StreamIdle /\ RegistryInit /\ FacadeIdle /\ DerivationIdle /\ ConversionIdle /\ RequestIdle /\ SettingsIdle /\ SendsIdle /\ ExitIdle /\ BodyIdle /\ CustomListIdle
  /\ HistoryIdle

HistoryNext ==
  \/ SetMessages
  \/ TimerFires
  \/ StartNewChat
  \/ \E id \in 1..MaxUniqueIds : LoadChatSession(id)
  \/ \E id \in 1..MaxUniqueIds : HandleDeleteChatHistorySession(id)
  \/ ClearAllHistory
  \/ ClockAdvances

HistorySpec == HistoryInit /\ [][HistoryNext]_vars

(***************************************************************************)
(* What the stream is expected to deliver, read off the frames the server  *)
(* sent (not off the adapter's parse)                                      *)
(***************************************************************************)
\* the text delta a frame carries ("" when it carries none)
FrameText(p, f) ==
  IF f \notin JSONFrames(p) THEN ""
  ELSE IF p = ANTHROPIC
       THEN (IF AnthropicFrameObj[f].type = "content_block_delta"
             THEN AnthropicFrameObj[f].text ELSE "")
       ELSE OpenAIFrameObj[f].content

RECURSIVE FrameTexts(_, _)
FrameTexts(p, fs) ==
  IF fs = <<>> THEN <<>>
  ELSE (IF FrameText(p, Head(fs)) = "" THEN <<>> ELSE <<FrameText(p, Head(fs))>>)
       \o FrameTexts(p, Tail(fs))

\* the frames whose line, newline included, the reader has delivered
NewlinesIn(s) == Cardinality({ i \in 1..Len(s) : s[i] = NL })
Arrived == SubSeq(frames, 1, NewlinesIn(SubSeq(wire, 1, pos)))

\* the texts handed to onPart, in order
RECURSIVE Texts(_)
Texts(l) ==
  IF l = <<>> THEN <<>>
  ELSE (IF Head(l).cb = "onPart" THEN <<Head(l).text>> ELSE <<>>) \o Texts(Tail(l))

Count(l, cb) == Cardinality({ i \in 1..Len(l) : l[i].cb = cb })

InFlight == pc \in {"fetch", "errorText", "read"}

(***************************************************************************)
(* Claims about sendMessageStream                                          *)
(***************************************************************************)
\* C1: a sendMessageStream call on the OpenAI, Anthropic or Custom adapter
\* made with an API key invokes no terminal callback while it is in flight
\* and, whatever the request met (fetch rejected, non-2xx status, no body, a
\* read failing after parts were delivered, natural end, abort), has invoked
\* exactly one of onComplete / onError, exactly once, when it is over.
C1_ExactlyOneTerminalCallback ==
  (provider \in SSEProviders /\ hasApiKey) =>
    /\ pc \in {"idle", "fetch", "errorText", "read", "done"}
    /\ Count(log, "onComplete") + Count(log, "onError") = (IF pc = "done" THEN 1 ELSE 0)
    /\ (pc = "done") => outcome \in {"fetchRejected", "notOk", "noBody",
                                     "readFailed", "ended", "aborted"}
    /\ (pc = "done" /\ outcome = "ended") => Last(log).cb = "onComplete"
    /\ (pc = "done" /\ outcome # "ended") => Last(log).cb = "onError"

C1_Witness ==
  /\ provider \in SSEProviders /\ hasApiKey
  /\ pc = "done" /\ outcome = "readFailed"
  /\ Count(log, "onPart") >= 1
  /\ Count(log, "onError") = 1 /\ Count(log, "onComplete") = 0

\* C2: a sendMessageStream call whose config has no apiKey invokes onError
\* exactly once, never onComplete or onPart, and issues no network request,
\* on every adapter.
C2_NoKeySurfacesThroughOnError ==
  (~hasApiKey /\ pc # "idle") =>
    /\ Len(log) = 1 /\ log[1].cb = "onError"
    /\ ~fetchIssued

\* C3: once the abort signal of an in-flight call is triggered, no callback
\* is invoked any more: the log of callbacks stays as it was at the abort.
C3_NoCallbackAfterAbort ==
  aborted => Len(log) = abortedAt

\* C4: when the body consists of newline-terminated lines some of which
\* are data lines with malformed JSON and the stream ends naturally, the
\* text of every valid frame was handed to onPart in the original order,
\* then onComplete was invoked once, and onError never.
HasMalformed == \E i \in 1..Len(frames) : frames[i] = "Bad"

C4_MalformedLinesSkipped ==
  (provider \in SSEProviders /\ terminated /\ HasMalformed /\ outcome = "ended") =>
    /\ Texts(log) = FrameTexts(provider, frames)
    /\ Count(log, "onComplete") = 1
    /\ Count(log, "onError") = 0
    /\ Last(log).cb = "onComplete"

C4_Witness ==
  /\ provider \in SSEProviders /\ terminated /\ outcome = "ended"
  /\ Len(frames) = 3 /\ frames[2] = "Bad"
  /\ FrameText(provider, frames[1]) = "a" /\ FrameText(provider, frames[3]) = "b"
  /\ Texts(log) = <<"a", "b">>

\* C5: at every moment of a call, the onPart invocations made so far are
\* exactly the non-empty text deltas of the frames that have arrived (as
\* newline-terminated lines), in arrival order, and a terminal callback is
\* the last entry of the callback log: no onPart follows it.
C5_PartsInArrivalOrder ==
  (provider \in SSEProviders) =>
    /\ Texts(log) = FrameTexts(provider, Arrived)
    /\ \A i \in 1..(Len(log) - 1) : log[i].cb = "onPart"

C5_Witness ==
  /\ provider \in SSEProviders /\ pc = "done"
  /\ Texts(log) = <<"b", "a", "b">>
  /\ Last(log).cb = "onError"

\* C6: Anthropic usage accounting.  When the stream ends naturally and its
\* events contain a message_start with input_tokens P after which one or
\* more message_delta events arrive (and no further message_start), the last
\* of them with output_tokens C, onComplete receives {promptTokens: P,
\* completionTokens: C, totalTokens: P + C}; and whenever usageMetadata is
\* not null, totalTokens = promptTokens + completionTokens.
IsType(f, ty) == f \in DOMAIN AnthropicFrameObj /\ AnthropicFrameObj[f].type = ty
LastOf(fs, ty) ==
  LET I == { i \in 1..Len(fs) : IsType(fs[i], ty) }
  IN  IF I = {} THEN 0 ELSE CHOOSE i \in I : \A j \in I : j <= i

C6_AnthropicUsage ==
  (provider = ANTHROPIC) =>
    /\ usageMetadata # <<>> =>
         usageMetadata[1].totalTokens =
           usageMetadata[1].promptTokens + usageMetadata[1].completionTokens
    /\ LET s == LastOf(Arrived, "message_start")
           d == LastOf(Arrived, "message_delta")
       IN  (outcome = "ended" /\ s > 0 /\ d > s) =>
             LET P == AnthropicFrameObj[Arrived[s]].message_usage[1]
                 C == AnthropicFrameObj[Arrived[d]].usage[1]
             IN  Last(log) = OnComplete(<< Usage(P, C, P + C) >>)

C6_Witness ==
  /\ provider = ANTHROPIC /\ outcome = "ended"
  /\ frames = <<"S2", "Ta", "D3">> /\ terminated
  /\ log = << OnPart("a"), OnComplete(<< Usage(2, 3, 5) >>) >>

\* C7: OpenAI / Custom usage accounting.  When the stream ends naturally,
\* onComplete receives the usage object of the last frame that carried one,
\* field for field, and null when no frame carried one.
LastWithUsage(fs) ==
  LET I == { i \in 1..Len(fs) :
               fs[i] \in DOMAIN OpenAIFrameObj /\ OpenAIFrameObj[fs[i]].usage # <<>> }
  IN  IF I = {} THEN 0 ELSE CHOOSE i \in I : \A j \in I : j <= i

C7_OpenAIUsageVerbatim ==
  (provider \in {OPENAI, CUSTOM} /\ outcome = "ended") =>
    LET u == LastWithUsage(Arrived) IN
      /\ Last(log).cb = "onComplete"
      /\ u = 0 => Last(log).usage = <<>>
      /\ u > 0 =>
           LET w == OpenAIFrameObj[Arrived[u]].usage[1] IN
             /\ Last(log).usage # <<>>
             /\ Last(log).usage[1].promptTokens = w.prompt_tokens
             /\ Last(log).usage[1].completionTokens = w.completion_tokens
             /\ Last(log).usage[1].totalTokens = w.total_tokens

C7_Witness ==
  /\ provider \in {OPENAI, CUSTOM} /\ outcome = "ended" /\ terminated
  /\ frames = <<"U1", "TbU2", "Done">>
  /\ Last(log) = OnComplete(<< Usage(2, 1, 4) >>)

(***************************************************************************)
(* Claims about the provider registry                                      *)
(***************************************************************************)
\* the static fallback list the registry's contract names for a provider id
StaticFallback(id) ==
  IF id \in {GEMINI, OPENAI, ANTHROPIC} THEN FALLBACK_MODELS[id] ELSE <<>>

\* what the i-th config of the call is to contribute, given what happened
Contribution(i) ==
  CASE gamOutcomes[i].kind = "disabled" -> <<>>
    [] gamOutcomes[i].kind \in {"missing", "threw"} -> StaticFallback(gamConfigs[i].id)
    [] gamOutcomes[i].kind = "ok" -> gamOutcomes[i].returned

\* C8: getAllAvailableModels never rejects because a provider failed: it is
\* resolved exactly when every config has been handled, whatever happened for
\* each; an enabled config whose adapter is missing or throws (a missing API
\* key included) contributes the static fallback list of its id if there is
\* one and nothing otherwise, and one whose adapter succeeds contributes
\* exactly the models returned.
C8_FallbackPerProvider ==
  /\ gamPc \in {"idle", "await", "done"}
  /\ (gamPc = "done") = (gamPc # "idle" /\ Len(gamOutcomes) = Len(gamConfigs))
  /\ gamPc = "await" => gamIdx = Len(gamOutcomes) + 1 /\ gamIdx <= Len(gamConfigs)
  /\ \A i \in 1..Len(gamOutcomes) :
       /\ (gamOutcomes[i].kind = "disabled") = ~gamConfigs[i].enabled
       /\ gamOutcomes[i].kind = "missing" => gamConfigs[i].id \notin DOMAIN providers
       /\ (gamConfigs[i].enabled /\ gamConfigs[i].id \in {OPENAI, CustomId}
           /\ gamConfigs[i].apiKey = "") => gamOutcomes[i].kind = "threw"
  /\ allModels = Flatten([i \in 1..Len(gamOutcomes) |-> Contribution(i)])

\* an OpenAI config without key falls back to the static list, a custom
\* provider without key contributes nothing
C8_Witness ==
  /\ gamPc = "done"
  /\ gamConfigs = << Config(OPENAI, "OpenAI", TRUE, ""),
                     Config(CustomId, "Local LLM", TRUE, "") >>
  /\ gamOutcomes = << Outcome("threw", <<>>), Outcome("threw", <<>>) >>
  /\ allModels = FALLBACK_MODELS[OPENAI]

Occurrences(s, x) == Cardinality({ i \in 1..Len(s) : s[i] = x })

Restrict(s, S) == SelectSeq(s, LAMBDA x : x \in S)

\* C9: the list getAllAvailableModels resolves with is ascending by provider
\* name and, within one provider name, by model name; it holds exactly the
\* collected models, each as often as it was collected; and it is determined
\* by them: models that compare equal keep the order they were collected in.
C9_SortedPermutation ==
  (gamPc = "done") =>
    /\ \A i \in 1..(Len(gamResult) - 1) :
         \/ LocaleCompare(gamResult[i].providerName, gamResult[i + 1].providerName) < 0
         \/ /\ LocaleCompare(gamResult[i].providerName, gamResult[i + 1].providerName) = 0
            /\ LocaleCompare(gamResult[i].name, gamResult[i + 1].name) <= 0
    /\ Len(gamResult) = Len(allModels)
    /\ \A i \in 1..Len(allModels) :
         Occurrences(gamResult, allModels[i]) = Occurrences(allModels, allModels[i])
    /\ \A i, j \in 1..Len(allModels) :
         (/\ LocaleCompare(allModels[i].providerName, allModels[j].providerName) = 0
          /\ LocaleCompare(allModels[i].name, allModels[j].name) = 0)
         => Restrict(gamResult, {allModels[i], allModels[j]})
              = Restrict(allModels, {allModels[i], allModels[j]})

\* OpenAI's live listing and a custom provider that is also named OpenAI:
\* the custom provider's "Gpt 4o" sorts before OpenAI's "GPT-4"
C9_Witness ==
  /\ gamPc = "done"
  /\ gamConfigs = << Config(OPENAI, "OpenAI", TRUE, "key"),
                     Config(CustomId, "OpenAI", TRUE, "key") >>
  /\ allModels = << Model("gpt-4", "GPT-4", OPENAI, "OpenAI"),
                    Model("gpt-4o", "GPT-4o", OPENAI, "OpenAI"),
                    Model("gpt-4o", "Gpt 4o", CustomId, "OpenAI"),
                    Model("llama-3", "Llama 3", CustomId, "OpenAI") >>
  /\ gamResult = << allModels[3], allModels[1], allModels[2], allModels[4] >>

\* the prefixes that make a model id a built-in provider's
BuiltInPrefixes(id) ==
  CASE id = GEMINI -> {"gemini", "models/gemini"}
    [] id = OPENAI -> {"gpt-", "text-", "davinci", "curie", "babbage", "ada"}
    [] id = ANTHROPIC -> {"claude"}

BuiltInAdapter(id) ==
  CASE id = GEMINI -> geminiProvider
    [] id = OPENAI -> openaiProvider
    [] id = ANTHROPIC -> anthropicProvider

FirstEnabled(configs, id) ==
  configs[Min({ i \in 1..Len(configs) : configs[i].id = id /\ configs[i].enabled })]

\* C10: getProviderForModel resolves by pattern before list order: for a
\* model id with a built-in provider's prefix and a config list in which that
\* provider is enabled, the result is that provider's adapter and config,
\* whatever enabled providers precede it.
C10_PatternBeforeListOrder ==
  (gpfPc = "done") =>
    \A id \in {GEMINI, OPENAI, ANTHROPIC} :
      (/\ \E pre \in BuiltInPrefixes(id) : StartsWith(gpfModelId, pre)
       /\ \E i \in 1..Len(gpfConfigs) : gpfConfigs[i].id = id /\ gpfConfigs[i].enabled)
      => gpfResult = << [provider |-> BuiltInAdapter(id),
                         config |-> FirstEnabled(gpfConfigs, id)] >>

\* Anthropic listed after an enabled Gemini
C10_Witness ==
  /\ gpfPc = "done"
  /\ gpfModelId = "claude-3-opus-20240229"
  /\ gpfConfigs = << Config(GEMINI, "Google Gemini", TRUE, "key"),
                     Config(ANTHROPIC, "Anthropic Claude", TRUE, "") >>
  /\ gpfResult = << [provider |-> anthropicProvider, config |-> gpfConfigs[2]] >>

\* the positions of configs that are enabled and have an adapter in reg
Resolvable(reg, configs) ==
  { i \in 1..Len(configs) : configs[i].enabled /\ configs[i].id \in DOMAIN reg }

\* C11: getProviderForModel's fallback: when no enabled config with a
\* registered adapter matches the model id by pattern, the call returns the
\* first config in list order that is enabled and has a registered adapter,
\* with that adapter; it returns null exactly when there is no such config.
C11_FallbackIsFirstResolvable ==
  [][(gpfPc = "idle" /\ gpfPc' = "done") =>
       LET R == Resolvable(providers, gpfConfigs')
           matched == \E i \in R : \E id \in {GEMINI, OPENAI, ANTHROPIC} :
                        /\ gpfConfigs'[i].id = id
                        /\ \E pre \in BuiltInPrefixes(id) : StartsWith(gpfModelId', pre)
       IN  /\ (gpfResult' = <<>>) = (R = {})
           /\ (~matched /\ R # {}) =>
                \E i \in R :
                  /\ \A j \in R : i <= j
                  /\ gpfResult' = << [provider |-> providers[gpfConfigs'[i].id],
                                      config |-> gpfConfigs'[i]] >>]_vars

\* a model id without pattern; the sentinel config has no adapter and is
\* passed over, the second config is the first resolvable one
C11_Witness ==
  /\ gpfPc = "done"
  /\ gpfModelId = "o1-mini"
  /\ gpfConfigs = << Config(CUSTOM, "Custom Provider", TRUE, "key"),
                     Config(ANTHROPIC, "Anthropic Claude", TRUE, "") >>
  /\ gpfResult = << [provider |-> anthropicProvider, config |-> gpfConfigs[2]] >>

\* C12: registerCustomProvider is guarded and idempotent per id: for an id
\* that is already registered, or the sentinel id 'custom', the registry
\* stays as it is; for a new id exactly one adapter is added, with the
\* config's id and name; a second call with the same config changes nothing.
C12_RegisterIdempotent ==
  \A config \in ProviderConfigs :
    LET once == RegisterCustomProviderIn(providers, config)
    IN  /\ (config.id \in DOMAIN providers \/ config.id = CUSTOM) => once = providers
        /\ (config.id \notin DOMAIN providers /\ config.id # CUSTOM) =>
             /\ DOMAIN once = DOMAIN providers \cup {config.id}
             /\ once[config.id].id = config.id
             /\ once[config.id].name = config.name
             /\ \A id \in DOMAIN providers : once[id] = providers[id]
        /\ RegisterCustomProviderIn(once, config) = once

\* the custom id was registered as "Local LLM"; registering it again under
\* another name leaves that adapter in place
C12_Witness ==
  /\ DOMAIN providers = {GEMINI, OPENAI, ANTHROPIC, CustomId}
  /\ providers[CustomId].name = "Local LLM"
  /\ RegisterCustomProviderIn(providers, Config(CustomId, "OpenAI", TRUE, "key")) = providers

\* C13: across every sequence and interleaving of getAllAvailableModels,
\* registerCustomProvider and getProviderForModel, the registry holds the
\* three built-in adapters, no adapter is ever removed, and the adapter of a
\* custom id, once created, is the one every later lookup finds.
C13_RegistryOnlyGrows ==
  /\ \A id \in {GEMINI, OPENAI, ANTHROPIC} :
       id \in DOMAIN providers /\ providers[id] = BuiltInAdapter(id)
  /\ [][\A id \in DOMAIN providers :
          id \in DOMAIN providers' /\ providers'[id] = providers[id]]_vars

\* all three operations have acted; the listing met the custom id already
\* registered as "Local LLM" and kept that adapter
C13_Witness ==
  /\ gamPc = "done" /\ gpfPc = "done"
  /\ \E i \in 1..Len(gamConfigs) :
       gamConfigs[i].id = CustomId /\ gamConfigs[i].name = "OpenAI"
  /\ CustomId \in DOMAIN providers
  /\ providers[CustomId] = [id |-> CustomId, name |-> "Local LLM", kind |-> CUSTOM]
  /\ gpfResult # <<>> /\ gpfResult[1].provider = providers[CustomId]

(***************************************************************************)
(* Claims about the model listing facade                                   *)
(***************************************************************************)
CallsOf(fn) == { i \in 1..Len(apiCalls) : apiCalls[i].fn = fn }

\* C14: when the stored settings hold a providerConfigs array, the facade
\* calls the Unified Model Service with the settings as stored and nothing
\* else: it resolves with exactly the list that service returned, rejects
\* with the error that service threw, and never calls the proxy service or
\* the SDK.
C14_ProviderConfigsUnifiedOnly ==
  storedSettings.providerConfigsIsArray =>
    /\ apiPc \in {"idle", "unified1", "resolved", "rejected"}
    /\ apiPc # "idle" => apiCalls = << UnifiedCall(storedSettings, FALSE, <<>>) >>
    /\ randomKey = ""
    /\ apiPc = "unified1" => apiAnswers = <<>>
    /\ apiPc = "resolved" =>
         /\ Len(apiAnswers) = 1 /\ apiAnswers[1].kind = "models"
         /\ apiResult = apiAnswers[1].models
    /\ apiPc = "rejected" =>
         /\ Len(apiAnswers) = 1 /\ apiAnswers[1].kind = "throws"
         /\ apiError = apiAnswers[1].message

\* the unified service threw although multi-provider mode is on and keys and
\* a proxy are configured: the call rejected with that error
C14_Witness ==
  /\ storedSettings = Settings("object", TRUE, "true", TRUE, ProxyUrl)
  /\ apiKeysString = << "k1" >>
  /\ apiPc = "rejected"
  /\ apiError = "unified failed"
  /\ Len(apiCalls) = 1

\* the facade's step 2 applies: settings read, no providerConfigs array,
\* useMultipleProviders is not false
StepTwoApplies ==
  /\ storedSettings.stored # "invalid"
  /\ ~storedSettings.providerConfigsIsArray
  /\ storedSettings.useMultipleProviders # "false"

\* the facade's step 2 is switched off
StepTwoOff ==
  /\ storedSettings.stored # "invalid"
  /\ ~storedSettings.providerConfigsIsArray
  /\ storedSettings.useMultipleProviders = "false"

\* the key lines the caller's string holds, by what they are after trimming
ExpectedKeys ==
  CASE apiKeysString = <<>> -> {}
    [] apiKeysString = << "" >> -> {}
    [] apiKeysString = << " \n\t\n" >> -> {}
    [] apiKeysString = << "k1" >> -> {"k1"}
    [] apiKeysString = << " k1 \n\nk2" >> -> {"k1", "k2"}
    [] apiKeysString = << "k1\nk2\n k3 " >> -> {"k1", "k2", "k3"}

\* C15: with no providerConfigs array and useMultipleProviders not false, the
\* Unified Model Service is called exactly once, with the caller's key string
\* merged into the settings; its list is returned and the legacy path is not
\* entered, or its error is swallowed and the legacy path is entered once.
\* With useMultipleProviders false it is never called.  No service is called
\* twice in one call.
C15_StepOrder ==
  /\ \A fn \in {"unified", "proxy", "sdk"} : Cardinality(CallsOf(fn)) <= 1
  /\ StepTwoOff => CallsOf("unified") = {}
  /\ (StepTwoApplies /\ apiPc # "idle") =>
       /\ apiCalls[1] = UnifiedCall(storedSettings, TRUE, apiKeysString)
       /\ apiPc = "unified2" => apiAnswers = <<>>
       /\ (apiAnswers # <<>> /\ apiAnswers[1].kind = "models") =>
            /\ apiPc = "resolved" /\ apiResult = apiAnswers[1].models
            /\ Len(apiCalls) = 1 /\ randomKey = ""
       /\ (apiAnswers # <<>> /\ apiAnswers[1].kind = "throws") =>
            /\ apiError # apiAnswers[1].message
            /\ IF ExpectedKeys = {}
               THEN apiPc = "rejected" /\ apiError = NoKeysMessage /\ Len(apiCalls) = 1
               ELSE /\ randomKey # ""
                    /\ Len(apiCalls) >= 2 /\ apiCalls[2].fn \in {"proxy", "sdk"}

\* the unified service threw in step 2, the legacy path took over and
\* resolved through the SDK
C15_Witness ==
  /\ storedSettings = Settings("object", FALSE, "unset", FALSE, "")
  /\ apiKeysString = << "k1" >>
  /\ Len(apiCalls) = 2 /\ apiCalls[1].fn = "unified" /\ apiCalls[2].fn = "sdk"
  /\ apiAnswers[1].kind = "throws"
  /\ apiPc = "resolved" /\ apiResult # <<>>

\* the legacy path is to use the proxy: custom config on and a proxy URL set
ProxyConfigured ==
  storedSettings.useCustomApiConfig /\ storedSettings.apiProxyUrl # ""

\* C16: with a proxy configured, a proxy listing that throws makes the legacy
\* listing reject with an error that carries the proxy's failure, and the
\* SDK listing is not called.
C16_ProxyFailureIsFatal ==
  \A i \in CallsOf("proxy") :
    (i <= Len(apiAnswers) /\ apiAnswers[i].kind = "throws") =>
      /\ ProxyConfigured
      /\ apiPc = "rejected"
      /\ Includes(apiError, apiAnswers[i].message)
      /\ StartsWith(apiError, "Proxy service failed")
      /\ CallsOf("sdk") = {}

C16_Witness ==
  /\ ProxyConfigured
  /\ storedSettings.useMultipleProviders = "false"
  /\ apiCalls = << ProxyCall("k1") >>
  /\ apiAnswers = << Answer("throws", <<>>, "proxy timeout") >>
  /\ apiPc = "rejected"
  /\ apiError = "Proxy service failed: proxy timeout"

\* C17: in the legacy listing with a proxy configured the proxy's listing is
\* used exclusively: whatever the proxy answers, the SDK listing is not
\* called.
C17_ProxyExclusive ==
  (ProxyConfigured /\ CallsOf("proxy") # {}) => CallsOf("sdk") = {}

\* the facade has gone on to getLegacyGeminiModels
LegacyEntered ==
  \/ StepTwoOff /\ apiPc # "idle"
  \/ StepTwoApplies /\ apiAnswers # <<>> /\ apiAnswers[1].kind = "throws"

\* C18: when the caller's key string holds no non-empty key after trimming
\* (null, empty, blank lines only), the legacy listing rejects with the
\* configuration error before any proxy or SDK call; otherwise the key it
\* picks, and uses for every request, is one of the trimmed non-empty keys.
C18_LegacyKeyHandling ==
  IF LegacyEntered
  THEN IF ExpectedKeys = {}
       THEN /\ apiPc = "rejected" /\ apiError = NoKeysMessage
            /\ CallsOf("proxy") = {} /\ CallsOf("sdk") = {}
            /\ randomKey = ""
       ELSE /\ randomKey \in ExpectedKeys
            /\ \A i \in CallsOf("proxy") \cup CallsOf("sdk") : apiCalls[i].key = randomKey
            /\ CallsOf("proxy") \cup CallsOf("sdk") # {}
  ELSE randomKey = ""

\* the third of three key lines is picked, trimmed
C18_Witness ==
  /\ LegacyEntered
  /\ apiKeysString = << "k1\nk2\n k3 " >>
  /\ randomKey = "k3"
  /\ apiCalls = << SdkCall("k3", "") >>

\* a listed model is to be surfaced: supportedActions is absent, or holds
\* generateContent or generateImages
ShouldSurface(m) ==
  \/ m.supportedActions = <<>>
  \/ \E i \in 1..Len(m.supportedActions[1]) :
       m.supportedActions[1][i] \in {"generateContent", "generateImages"}

Surfaced(raw) == SelectSeq(raw, ShouldSurface)

\* C19: without a configured proxy the legacy listing calls the SDK
\* directly, and a listing with nothing to surface is an error: the call
\* rejects, so the legacy listing never resolves with an empty list.
C19_EmptyListingIsError ==
  /\ (LegacyEntered /\ ExpectedKeys # {} /\ ~ProxyConfigured) =>
       /\ CallsOf("proxy") = {}
       /\ Last(apiCalls).fn = "sdk"
       /\ (Len(apiAnswers) = Len(apiCalls) /\ Last(apiAnswers).kind = "models"
           /\ Surfaced(Last(apiAnswers).models) = <<>>) =>
            apiPc = "rejected" /\ apiError = EmptyListMessage
  /\ (LegacyEntered /\ apiPc = "resolved") => apiResult # <<>>

\* the SDK lists two models, neither of them surfaced
C19_Witness ==
  /\ LegacyEntered /\ ~ProxyConfigured
  /\ apiCalls = << SdkCall("k1", "") >>
  /\ Len(apiAnswers) = 1 /\ Len(apiAnswers[1].models) = 2
  /\ apiPc = "rejected" /\ apiError = EmptyListMessage

Ascending(models) ==
  \A i \in 1..(Len(models) - 1) : LocaleCompare(models[i].name, models[i + 1].name) <= 0

\* C20: on the proxy and on the SDK path the resolved list holds a listed
\* model exactly when its supportedActions is absent or holds generateContent
\* or generateImages; every entry has providerId 'gemini'; the list is
\* ascending by name.
C20_LegacyFilter ==
  (LegacyEntered /\ apiPc = "resolved") =>
    LET listed == Last(apiAnswers).models
    IN  /\ Last(apiCalls).fn \in {"proxy", "sdk"}
        /\ Len(apiResult) = Len(Surfaced(listed))
        /\ \A i \in 1..Len(listed) :
             ShouldSurface(listed[i]) =
               (\E j \in 1..Len(apiResult) : apiResult[j].id = listed[i].name)
        /\ \A j \in 1..Len(apiResult) :
             /\ apiResult[j].providerId = "gemini"
             /\ \E i \in 1..Len(listed) : apiResult[j].id = listed[i].name
        /\ Ascending(apiResult)

\* the proxy lists imagen (generateImages, no display name) before a model
\* without supportedActions: both are surfaced, in name order
C20_Witness ==
  /\ LegacyEntered /\ apiPc = "resolved"
  /\ Last(apiCalls).fn = "proxy"
  /\ Last(apiAnswers).models =
       << RawModel("models/imagen-3", "", << <<"predict", "generateImages">> >>),
          RawModel("aqa", "", <<>>) >>
  /\ apiResult = << Model("aqa", "aqa", "gemini", "Google Gemini"),
                    Model("models/imagen-3", "imagen-3", "gemini", "Google Gemini") >>

(***************************************************************************)
(* Claims about the Unified Model Service                                  *)
(***************************************************************************)
\* C21: the configs the Unified Model Service derives.  When
\* appSettings.providerConfigs is an array the result is that array as it
\* is.  Otherwise the result is the built-in default list with only the
\* Gemini entry changed, and only when a legacy apiKey is set: it gets that
\* apiKey, enabled = true, and apiProxyUrl as baseUrl exactly when
\* useCustomApiConfig and apiProxyUrl are both set; the OpenAI and Anthropic
\* entries are the defaults.  DEFAULT_PROVIDERS is as it was after any
\* number of derivations.
C21_ConfigDerivation ==
  /\ defaultProviders = DEFAULT_PROVIDERS
  /\ gpcPc = "done" =>
       IF gpcSettings.providerConfigs[1] = "array"
       THEN gpcResult = gpcSettings.providerConfigs[2]
       ELSE /\ Len(gpcResult) = 3
            /\ gpcResult[2] = DEFAULT_PROVIDERS[2]
            /\ gpcResult[3] = DEFAULT_PROVIDERS[3]
            /\ gpcResult[1].id = GEMINI /\ gpcResult[1].name = "Google Gemini"
            /\ IF gpcSettings.apiKey \in { <<>>, <<"">> }
               THEN gpcResult[1] = DEFAULT_PROVIDERS[1]
               ELSE /\ gpcResult[1].apiKey = gpcSettings.apiKey
                    /\ gpcResult[1].enabled
                    /\ gpcResult[1].baseUrl =
                         (IF gpcSettings.useCustomApiConfig /\ gpcSettings.apiProxyUrl = ProxyUrl
                          THEN ProxyUrl ELSE DEFAULT_PROVIDERS[1].baseUrl)

\* a second derivation, with a key and the proxy override, after a first one
C21_Witness ==
  /\ gpcCalls = 2
  /\ gpcSettings = AppSettings(<<"absent">>, <<"k1">>, TRUE, ProxyUrl)
  /\ gpcResult[1] = ProviderEntry(GEMINI, "Google Gemini", TRUE, ProxyUrl, <<"k1">>)
  /\ defaultProviders[1].baseUrl = "https://generativelanguage.googleapis.com/v1beta"

(***************************************************************************)
(* Claims about the history conversion                                     *)
(***************************************************************************)
\* the messages of the history items: without the system message
ItemMessages ==
  IF convProvider # ANTHROPIC /\ Trim(systemInstruction) # "" THEN Tail(messages)
  ELSE messages

\* C22: every history item whose parts are exactly one text part is
\* converted to a message whose content is a bare string equal to that text,
\* not an array; with a blank systemInstruction the OpenAI / Custom output
\* has exactly one message per history item and no system message.
C22_SingleTextIsBareString ==
  convPc = "done" =>
    /\ Len(ItemMessages) = Len(history)
    /\ \A i \in 1..Len(history) :
         (Len(history[i].parts) = 1 /\ history[i].parts[1].kind = "text") =>
           ItemMessages[i].content = StringContent(history[i].parts[1].text)
    /\ (convProvider \in {OPENAI, CUSTOM} /\ Trim(systemInstruction) = "") =>
         /\ Len(messages) = Len(history)
         /\ \A i \in 1..Len(messages) : messages[i].role # "system"

\* the entry the contract names for a part
ExpectedEntry(p, part) ==
  IF part.kind = "text" THEN TextEntry(part.text)
  ELSE IF p = ANTHROPIC THEN ImageEntry(part.mimeType, part.data)
  ELSE ImageUrlEntry("data:" \o part.mimeType \o ";base64," \o part.data)

\* C23: the converted messages appear in history order with role 'model'
\* mapped to 'assistant' and 'user' to 'user'; for an item with more than
\* one part, content is an array with one entry per part in the original
\* part order, a text part becoming a 'text' entry and an inline-data part
\* an image entry (OpenAI / Custom: 'image_url' with the data URL;
\* Anthropic: 'image' with a base64 source): no part is dropped or reordered.
C23_OrderAndRolesPreserved ==
  convPc = "done" =>
    /\ Len(ItemMessages) = Len(history)
    /\ \A i \in 1..Len(history) :
         /\ ItemMessages[i].role = (IF history[i].role = "model" THEN "assistant" ELSE "user")
         /\ Len(history[i].parts) > 1 =>
              /\ ItemMessages[i].content.kind = "array"
              /\ Len(ItemMessages[i].content.entries) = Len(history[i].parts)
              /\ \A j \in 1..Len(history[i].parts) :
                   ItemMessages[i].content.entries[j] =
                     ExpectedEntry(convProvider, history[i].parts[j])

(***************************************************************************)
(* Claims about sendMessageNonStream and the request headers               *)
(***************************************************************************)
\* a 2xx response with no content, as the contract words it
ResponseHasNoContent(p, data) ==
  IF p = ANTHROPIC
  THEN data.content \in { <<>>, << <<>> >> }
  ELSE \/ data.choices \in { <<>>, << <<>> >> }
       \/ data.choices[1][1].message = <<>>
       \/ data.choices[1][1].message[1].content \in { <<>>, <<"">> }

\* C24: a sendMessageNonStream call on the OpenAI, Anthropic or Custom
\* adapter made with an API key invokes no callback while the request is in
\* flight and has invoked exactly one of onComplete / onError, exactly once,
\* when it is over, whatever the request met; a 2xx response with no content
\* ended in onError, and onComplete never received an empty parts list.
C24_NonStreamOneCallback ==
  (reqOp = "sendMessageNonStream" /\ reqApiKey # "") =>
    /\ reqPc \in {"idle", "fetch", "errorText", "json", "done"}
    /\ Len(nsLog) = (IF reqPc = "done" THEN 1 ELSE 0)
    /\ reqPc = "done" =>
         /\ nsOutcome \in {"fetchRejected", "notOk", "notJson", "aborted", "noContent",
                           "completed"}
         /\ nsLog[1].cb \in {"onComplete", "onError"}
         /\ nsOutcome \in {"fetchRejected", "notOk", "notJson", "aborted"} =>
              nsLog[1].cb = "onError"
         /\ nsResponse # <<>> =>
              (nsLog[1].cb = "onError") = ResponseHasNoContent(reqProvider, nsResponse[1])
         /\ nsLog[1].cb = "onComplete" => nsLog[1].parts # <<>>

\* a 2xx response whose content is the empty string ended in onError
C24_Witness ==
  /\ reqOp = "sendMessageNonStream" /\ reqApiKey # "" /\ reqProvider = CUSTOM
  /\ reqPc = "done"
  /\ nsResponse = << ChatCompletion(<< << Choice(<< ChoiceMessage(<<"">>) >>) >> >>, <<>>) >>
  /\ nsLog = << NsOnError("No content in response") >>

\* the default headers of a provider's requests, as the contract names them
ExpectedDefaults ==
  IF reqProvider = ANTHROPIC
  THEN [n \in {"x-api-key", "Content-Type", "anthropic-version"} |->
          IF n = "x-api-key" THEN reqApiKey
          ELSE IF n = "Content-Type" THEN "application/json" ELSE "2023-06-01"]
  ELSE [n \in {"Authorization", "Content-Type"} |->
          IF n = "Authorization" THEN "Bearer " \o reqApiKey ELSE "application/json"]

\* C28: on every request of the OpenAI, Anthropic and Custom adapters (the
\* model listing, the streamed and the non-streamed send), config.customHeaders
\* are merged after the provider's default headers: a header named in both
\* (Authorization, x-api-key, anthropic-version, Content-Type) is sent with the
\* custom value, a default header not named in customHeaders is sent unchanged,
\* and nothing else is sent.
C28_CustomHeadersMergedLast ==
  reqPc \in {"issued", "fetch", "errorText", "json", "done"} =>
    /\ DOMAIN reqHeaders = DOMAIN ExpectedDefaults \cup DOMAIN reqCustomHeaders
    /\ \A n \in DOMAIN reqCustomHeaders : reqHeaders[n] = reqCustomHeaders[n]
    /\ \A n \in DOMAIN ExpectedDefaults \ DOMAIN reqCustomHeaders :
         reqHeaders[n] = ExpectedDefaults[n]

\* an Anthropic stream request whose custom headers replace the key and the
\* version, keep the content type and add a header of their own
C28_Witness ==
  /\ reqProvider = ANTHROPIC /\ reqOp = "sendMessageStream" /\ reqPc = "issued"
  /\ DOMAIN reqCustomHeaders = {"x-api-key", "anthropic-version", "X-Title"}
  /\ reqHeaders["x-api-key"] = "custom" /\ reqHeaders["anthropic-version"] = "custom"
  /\ reqHeaders["Content-Type"] = "application/json" /\ reqHeaders["X-Title"] = "custom"

(***************************************************************************)
(* Claims about the settings actions                                       *)
(***************************************************************************)
IdsOf(configs) == { configs[i].id : i \in 1..Len(configs) }

\* C26: built-in provider configs cannot be deleted.  After any sequence of
\* updateProvider, addCustomProvider, removeProvider and resetToDefaults
\* starting from the list of the three built-in configs, the list contains
\* the gemini, openai and anthropic configs; and removeProvider on an id
\* without the 'custom-' prefix leaves the list as it was.
C26_BuiltInsStay ==
  /\ {GEMINI, OPENAI, ANTHROPIC} \subseteq IdsOf(providerConfigs)
  /\ [][(lastOp' = "removeProvider" /\ ~StartsWith(lastId', "custom-"))
          => providerConfigs' = providerConfigs]_vars

\* a custom provider was added, the Gemini config was disabled, and
\* removeProvider was asked to remove the Gemini config
C26_Witness ==
  /\ lastOp = "removeProvider" /\ lastId = GEMINI
  /\ Len(providerConfigs) = 4
  /\ providerConfigs[1].id = GEMINI /\ ~providerConfigs[1].enabled
  /\ providerConfigs[4].id = "custom-1"

\* C27: provider config ids are unique.  After any sequence of
\* addCustomProvider, removeProvider, updateProvider and resetToDefaults,
\* two addCustomProvider actions at the same clock reading included, no two
\* configs of the list share an id, and the id of every custom config
\* starts with 'custom-'.
C27_IdsUnique ==
  /\ \A i, j \in 1..Len(providerConfigs) :
       i # j => providerConfigs[i].id # providerConfigs[j].id
  /\ \A i \in 1..Len(providerConfigs) :
       providerConfigs[i].id \notin {GEMINI, OPENAI, ANTHROPIC}
         => StartsWith(providerConfigs[i].id, "custom-")

(***************************************************************************)
(* Claims about the lines of the stream                                    *)
(***************************************************************************)
\* the frames that have arrived, the [DONE] lines left out
ArrivedNotDone == SelectSeq(Arrived, LAMBDA f : f # "Done")

\* C29: the line 'data: [DONE]' of an OpenAI / Custom stream is a no-op.
\* The parts handed to onPart and the usage held are those of the other
\* lines that have arrived, the lines after the sentinel included, as if
\* the sentinel were not there; and onComplete is invoked only when the
\* reader reports the end of the stream, not when the sentinel arrives.
C29_DoneIsNoOp ==
  (provider \in {OPENAI, CUSTOM}) =>
    /\ Texts(log) = FrameTexts(provider, ArrivedNotDone)
    /\ (pc = "read" \/ outcome = "ended") =>
         LET u == LastWithUsage(ArrivedNotDone) IN
           usageMetadata =
             (IF u = 0 THEN <<>>
              ELSE << Usage(OpenAIFrameObj[ArrivedNotDone[u]].usage[1].prompt_tokens,
                            OpenAIFrameObj[ArrivedNotDone[u]].usage[1].completion_tokens,
                            OpenAIFrameObj[ArrivedNotDone[u]].usage[1].total_tokens) >>)
    /\ pc = "read" => Count(log, "onComplete") = 0
    /\ Count(log, "onComplete") > 0 =>
         /\ Count(log, "onComplete") = 1
         /\ outcome = "ended" /\ pos = Len(wire)

\* text, the sentinel, text: both texts were delivered, then the end
C29_Witness ==
  /\ provider = OPENAI /\ terminated /\ frames = <<"Ta", "Done", "Tb">>
  /\ outcome = "ended"
  /\ log = << OnPart("a"), OnPart("b"), OnComplete(<<>>) >>

\* the whole body read as one chunk
WholeBody == ProcessChunk(provider, <<>>, <<>>, wire)

\* what is left of the body, read as one chunk from where the call is
RestOfBody == ProcessChunk(provider, buffer, usageMetadata, SubSeq(wire, pos + 1, Len(wire)))

\* C30: the line buffering does not depend on the chunk boundaries.  For a
\* body of newline-terminated lines, wherever the chunks read so far ended
\* (inside a line or inside the 'data: ' prefix included), the parts
\* delivered so far followed by those of the rest of the body are the parts
\* of the body read as one chunk, and so is the usage; when the stream has
\* ended, the onPart calls are the texts of the frames, each once and in
\* order (lines without the 'data: ' prefix give none), followed by
\* onComplete with the usage of the body read as one chunk.
C30_ChunkingIndependent ==
  (provider \in SSEProviders /\ terminated) =>
    /\ pc = "read" =>
         /\ Texts(log) \o RestOfBody.parts = WholeBody.parts
         /\ RestOfBody.usage = WholeBody.usage
         /\ RestOfBody.buffer = <<>>
    /\ outcome = "ended" =>
         /\ log = OnParts(WholeBody.parts) \o << OnComplete(WholeBody.usage) >>
         /\ Texts(log) = FrameTexts(provider, frames)
         /\ buffer = <<>>

\* a chunk has ended inside the 'data: ' prefix of the third line, after a
\* line without the prefix and a text line
C30_Witness ==
  /\ provider = ANTHROPIC /\ terminated /\ frames = <<"Other", "Ta", "Tb">>
  /\ pc = "read" /\ buffer = << "da" >>
  /\ log = << OnPart("a") >>

(***************************************************************************)
(* Claims about concurrent sends                                           *)
(***************************************************************************)
\* the body of call i read alone, as one chunk
SendAlone(i) == ProcessChunk(sends[i].provider, <<>>, <<>>, sends[i].wire)

\* what is left of the body of call i, read alone from where the call is
SendRest(i) ==
  ProcessChunk(sends[i].provider, sends[i].buffer, sends[i].usageMetadata,
               SubSeq(sends[i].wire, sends[i].pos + 1, Len(sends[i].wire)))

\* the texts of the frames call i is sent
SendOwnTexts(i) == { FrameText(sends[i].provider, sends[i].frames[n]) : n \in 1..Len(sends[i].frames) }

\* C25: two sendMessageStream calls in flight at once, on the same or on
\* different adapters, their continuations interleaved in any order, are
\* independent.  For each call: what it has delivered so far followed by
\* what its own remaining body gives is what its body gives read alone
\* (parts and usage); when it ends, its callbacks are the onPart calls and
\* the onComplete, with the usage, of its body read alone; when it fails, a
\* prefix of those onPart calls and one onError; and every text in its
\* callbacks, and every piece in its carry-over buffer, comes from its own
\* body.
C25_ConcurrentSendsIndependent ==
  \A i \in CallIds :
    LET s     == sends[i]
        alone == SendAlone(i)
        rest  == SendRest(i)
    IN
    /\ s.pc = "read" =>
         /\ Texts(s.log) \o rest.parts = alone.parts
         /\ rest.usage = alone.usage
    /\ s.pc = "done" =>
         \/ s.log = OnParts(alone.parts) \o << OnComplete(alone.usage) >>
         \/ \E n \in 0..Len(alone.parts), e \in {"fetch failed", "read failed"} :
              s.log = OnParts(SubSeq(alone.parts, 1, n)) \o << OnError(e) >>
    /\ \A n \in 1..Len(s.log) :
         s.log[n].cb = "onPart" => s.log[n].text \in SendOwnTexts(i)
    /\ \A n \in 1..Len(s.buffer) :
         \E m \in 1..Len(s.wire) : s.buffer[n] = s.wire[m]

\* two calls on the same adapter are both in their read loop, each has
\* delivered a part and each holds the beginning of a line in its buffer
C25_Witness ==
  /\ sends[1].provider = sends[2].provider
  /\ sends[1].pc = "read" /\ sends[2].pc = "read"
  /\ sends[1].log = << OnPart("a") >> /\ sends[2].log = << OnPart("b") >>
  /\ sends[1].buffer = << "da" >> /\ Len(sends[2].buffer) = 3

(***************************************************************************)
(* Claims about leaving the read loop and about the completion callback    *)
(***************************************************************************)
\* C31: once the reader of the response body has been acquired, its lock is
\* released exactly once on every way out of the read loop (end of stream,
\* a read that fails, abort), and before the terminal callback: no release
\* while the loop is reading, and when the call is over one release, made
\* when every callback but the last had been invoked, the last being
\* onComplete or onError.
C31_LockReleasedOnce ==
  /\ readerLock = "none" => releases = <<>>
  /\ pc = "read" => readerLock = "held" /\ releases = <<>>
  /\ (pc = "done" /\ readerLock # "none") =>
       /\ Len(releases) = 1
       /\ Len(log) = releases[1] + 1
       /\ log[Len(log)].cb \in {"onComplete", "onError"}
       /\ outcome \in {"ended", "readFailed", "aborted"}

\* an abort in the read loop after one part: the lock was released after
\* the part and before onError
C31_Witness ==
  /\ outcome = "aborted" /\ pc = "done"
  /\ releases = << 1 >>
  /\ log = << OnPart("a"), OnError("AbortError") >>

\* C37: an exception thrown by the caller's onComplete, at the end of a
\* stream or after a successful non-streamed response, does not make the
\* same call invoke onError: no call invokes both.
C37_CompleteExcludesError ==
  /\ Count(log, "onComplete") > 0 => Count(log, "onError") = 0
  /\ Count(nsLog, "onComplete") > 0 => Count(nsLog, "onError") = 0

\* the lines of the body that end with a newline, read as one chunk
WholeLines == ProcessChunk(provider, <<>>, <<>>, Encode(provider, Front(frames), TRUE))

\* C36: when the stream ends while the buffer still holds a line without a
\* newline, that line is dropped unparsed.  For a body whose last line is
\* not terminated, at the end of the stream the onPart calls are the texts
\* of the lines before the last, the last line is still in the buffer, and
\* onComplete is invoked once, last, with the usage of the lines before the
\* last.
C36_ResidualLineDiscarded ==
  (provider \in SSEProviders /\ ~terminated /\ outcome = "ended") =>
    /\ Texts(log) = FrameTexts(provider, Front(frames))
    /\ buffer = LineAtoms(provider, Last(frames))
    /\ Count(log, "onComplete") = 1 /\ Count(log, "onError") = 0
    /\ log[Len(log)] = OnComplete(WholeLines.usage)

\* a text line, then a line with text and usage that lacks its newline: one
\* part, no usage
C36_Witness ==
  /\ provider = OPENAI /\ ~terminated /\ frames = <<"Ta", "TbU2">>
  /\ outcome = "ended"
  /\ log = << OnPart("a"), OnComplete(<<>>) >>

(***************************************************************************)
(* Claims about the request body                                           *)
(***************************************************************************)
\* C40: a generation parameter that is supplied is forwarded unchanged in
\* the request body of the OpenAI, Anthropic and Custom adapters, 0
\* included; the defaults 0.7 and 1.0 are used only when the parameter is
\* absent.
C40_SuppliedParametersForwarded ==
  requestBody # <<>> =>
    /\ requestBody[1].temperature =
         (IF generationConfig.temperature = <<>> THEN DefaultTemperature
          ELSE generationConfig.temperature[1])
    /\ requestBody[1].top_p =
         (IF generationConfig.topP = <<>> THEN DefaultTopP
          ELSE generationConfig.topP[1])

(***************************************************************************)
(* Claims about the registry's listing and routing, continued              *)
(***************************************************************************)
\* what the config at position i of the listing call has added to allModels
EnabledContribution(i) ==
  IF ~gamConfigs[i].enabled THEN <<>>
  ELSE IF gamOutcomes[i].kind = "ok" THEN gamOutcomes[i].returned
  ELSE FallbackModels(gamConfigs[i].id)

\* C32: getAllAvailableModels queries only enabled configs, after
\* registering the custom adapters.  The listing it awaits is never that of
\* a disabled config; a disabled config is passed over and adds no model,
\* not even a fallback list, so that the models collected are those of the
\* enabled configs, in order; and from the call on, every config of the
\* input whose id is not 'custom', enabled or not, has an adapter in the
\* registry.
C32_OnlyEnabledQueried ==
  /\ gamPc = "await" => gamConfigs[gamIdx].enabled
  /\ \A i \in 1..Len(gamOutcomes) :
       ~gamConfigs[i].enabled => gamOutcomes[i] = Outcome("disabled", <<>>)
  /\ allModels = Flatten([i \in 1..Len(gamOutcomes) |-> EnabledContribution(i)])
  /\ (gamPc = "done" /\ \A i \in 1..Len(gamConfigs) : ~gamConfigs[i].enabled) =>
       gamResult = <<>>
  /\ gamPc # "idle" =>
       \A i \in 1..Len(gamConfigs) :
         gamConfigs[i].id # CUSTOM => gamConfigs[i].id \in DOMAIN providers

\* a disabled custom config and a disabled Gemini config: no adapter was
\* asked, no Gemini fallback list was added, and the custom adapter was
\* registered all the same
C32_Witness ==
  /\ gamPc = "done"
  /\ Len(gamConfigs) = 2
  /\ gamConfigs[1].id = CustomId /\ ~gamConfigs[1].enabled
  /\ gamConfigs[2].id = GEMINI /\ ~gamConfigs[2].enabled
  /\ CustomId \in DOMAIN providers
  /\ gamResult = <<>>

(***************************************************************************)
(* Claims about the custom provider's listing                              *)
(***************************************************************************)
\* the bodies of the three accepted shapes, and the list each carries
AcceptedShape(data) ==
  \/ data.isArray
  \/ ~data.isArray /\ data.data # <<>> /\ data.models = <<>>
  \/ ~data.isArray /\ data.data = <<>> /\ data.models # <<>>

Listed(data) ==
  IF data.isArray THEN data.items
  ELSE IF data.data # <<>> THEN data.data[1] ELSE data.models[1]

\* C33: the listing of a custom provider.  Without an API key the call
\* rejects, before any request; with a key it never rejects: a 2xx answer in
\* one of the three shapes ({data: [...]}, a bare array, {models: [...]})
\* resolves with one model per entry listed, each with the config's id and
\* name as providerId and providerName, in non-decreasing order of name; a
\* non-2xx answer or a failed fetch resolves with the one model 'default'.
C33_CustomListing ==
  /\ clPc = "rejected" => clConfig.apiKey = "" /\ clAnswer = <<>>
  /\ (clPc # "idle" /\ clConfig.apiKey = "") => clPc = "rejected"
  /\ clPc = "resolved" =>
       /\ \A i \in 1..Len(clResult) :
            /\ clResult[i].providerId = clConfig.id
            /\ clResult[i].providerName = clConfig.name
       /\ \A i \in 1..(Len(clResult) - 1) :
            LocaleCompare(clResult[i].name, clResult[i + 1].name) <= 0
       /\ clAnswer[1].met \in {"fetchRejected", "notOk"} =>
            /\ Len(clResult) = 1
            /\ clResult[1].id = "default"
       /\ (clAnswer[1].met = "json" /\ AcceptedShape(clAnswer[1].body)) =>
            LET listed == Listed(clAnswer[1].body) IN
            /\ Len(clResult) = Len(listed)
            /\ \A m \in CustomRawEntries :
                 Cardinality({ i \in 1..Len(clResult) : clResult[i].id = CustomEntryId(m) })
                   = Cardinality({ i \in 1..Len(listed) : listed[i] = m })

\* a Gemini-style answer listing two models, out of name order: both are
\* returned, sorted
C33_Witness ==
  /\ clPc = "resolved"
  /\ clAnswer[1].met = "json"
  /\ clAnswer[1].body = ObjectBody(<<>>, << << CustomRaw("", "mistral-7b", "", ""),
                                              CustomRaw("llama-3", "", "", "") >> >>)
  /\ Len(clResult) = 2
  /\ clResult[1].id = "llama-3" /\ clResult[2].id = "mistral-7b"
  /\ clResult[1].providerName = clConfig.name

\* C34: the routing round trip.  A model returned by
\* getAllAvailableModels(configs) with providerId P is routed by a later
\* getProviderForModel(model.id, configs) to the config whose id is P, a
\* model listed by a custom provider included.
C34_RoutedToLister ==
  (gamPc = "done" /\ gpfPc = "done") =>
    \A k \in 1..Len(gamResult) :
      gamResult[k].id = gpfModelId =>
        /\ gpfResult # <<>>
        /\ gpfResult[1].config.id = gamResult[k].providerId

\* C35: getProviderForModel reads the registry and does not write it, and
\* what it returns is consistent with the registry.  A call leaves the
\* registry as it was (it registers no custom provider, so that an enabled
\* custom config whose id has no adapter yet is passed over); when it
\* returns a pair, the config is a config of the list that is enabled and
\* the provider is the adapter registered under the config's id.
C35_RoutingReadsOnly ==
  [][(gpfPc = "idle" /\ gpfPc' = "done") =>
       /\ providers' = providers
       /\ gpfResult' # <<>> =>
            /\ \E i \in 1..Len(gpfConfigs') : gpfConfigs'[i] = gpfResult'[1].config
            /\ gpfResult'[1].config.enabled
            /\ gpfResult'[1].config.id \in DOMAIN providers
            /\ gpfResult'[1].provider = providers[gpfResult'[1].config.id]
       /\ (\A i \in 1..Len(gpfConfigs') : gpfConfigs'[i].id \notin DOMAIN providers) =>
            gpfResult' = <<>>]_vars

\* an enabled custom config that was never registered, ahead of an enabled
\* Gemini config: the custom config is passed over, it is still without
\* adapter, and the Gemini pair is returned
C35_Witness ==
  /\ gpfPc = "done"
  /\ gpfModelId = "llama-3"
  /\ gpfConfigs = << Config(CustomId, "Local LLM", TRUE, "key"),
                     Config(GEMINI, "Google Gemini", TRUE, "key") >>
  /\ CustomId \notin DOMAIN providers
  /\ gpfResult = << [provider |-> geminiProvider, config |-> gpfConfigs[2]] >>

(***************************************************************************)
(* Claims about the chat history                                           *)
(***************************************************************************)
SessionIdsOf(sessions) == { sessions[i].id : i \in 1..Len(sessions) }

\* C38: a session deleted with handleDeleteChatHistorySession stays deleted:
\* no later step, the debounced save scheduled before the deletion included,
\* puts a session with that id back into savedSessions or into the stored
\* list.
C38_DeletedStaysDeleted ==
  \A id \in deletedIds :
    id \notin SessionIdsOf(savedSessions) /\ id \notin SessionIdsOf(storedSessions)

SortedByTimestamp(sessions) ==
  \A i, j \in 1..Len(sessions) : i < j => sessions[i].timestamp >= sessions[j].timestamp

OnePerId(sessions) ==
  \A i, j \in 1..Len(sessions) : sessions[i].id = sessions[j].id => i = j

PositionOf(sessions, id) == Min({ i \in 1..Len(sessions) : sessions[i].id = id })

\* the pending save is of a session of the list, with as many messages and
\* the same last message as the list has for it
SavesUnchanged(sessions) ==
  /\ saveTimer # <<>>
  /\ FindSession(sessions, saveTimer[1].currentActiveSessionId) # <<>>
  /\ LET existing == FindSession(sessions, saveTimer[1].currentActiveSessionId)[1]
     IN  /\ Len(existing.messages) = Len(saveTimer[1].currentMessages)
         /\ LastMessageId(existing.messages) = LastMessageId(saveTimer[1].currentMessages)

\* C39: after every executed save, savedSessions and the stored list are
\* sorted by timestamp, newest first, and hold at most one session per id;
\* a save that changes neither the number of messages nor the last
\* message's id leaves the session its timestamp and its place in the list.
C39_SavesKeepOrder ==
  [][ histOp' = "save" =>
        /\ SortedByTimestamp(savedSessions') /\ OnePerId(savedSessions')
        /\ SortedByTimestamp(storedSessions') /\ OnePerId(storedSessions')
        /\ SavesUnchanged(savedSessions) =>
             LET id == saveTimer[1].currentActiveSessionId
             IN  /\ FindSession(savedSessions', id)[1].timestamp
                      = FindSession(savedSessions, id)[1].timestamp
                 /\ PositionOf(savedSessions', id) = PositionOf(savedSessions, id)
                 /\ FindSession(storedSessions', id)[1].timestamp
                      = FindSession(savedSessions, id)[1].timestamp ]_vars

\* a save at a later time has left two sessions their earlier timestamps
C39_Witness ==
  /\ histOp = "save"
  /\ Len(savedSessions) >= 2
  /\ storedSessions = savedSessions
  /\ \A i \in 1..Len(savedSessions) : savedSessions[i].timestamp < dateNow
====
